---------------------------- MODULE Spec2Model ----------------------------
(***************************************************************************)
(* A model of the resource lifecycle (Srv, Stmt) and of the bind           *)
(* dispatcher of the ora Oracle driver.                                    *)
(*                                                                         *)
(* Server part: callers (Threads) run Srv.Close, Srv.OpenSes, Env.OpenSrv  *)
(* and Env.Close; every handler is cut into steps at the points where the  *)
(* code releases a lock, so that interleavings of concurrent calls are     *)
(* states of the model.  The variable serial fixes the discipline of the   *)
(* callers: when TRUE a call starts only while no other call is running.   *)
(***************************************************************************)
EXTENDS Integers, Sequences, FiniteSets

\* ---------------------------------------------------------------- bounds
MaxOpens == 2      \* Env.OpenSrv calls (so: native server handles)
MaxSrv == 1        \* Srv instances the server pool constructs
MaxSes == 2        \* Ses instances the session pool constructs
MaxStmt == 1       \* Stmt instances the statement pool constructs
MaxParams == 2     \* parameters of one Exe call
MaxBatch == 1      \* length of a batch parameter

\* ---------------------------------------------------------------- values
NULL == 0                       \* a nil pointer, a nil native handle
NIL == [kind |-> "nil"]         \* the nil error
Threads == {"t1", "t2"}
Srvs == 1..MaxSrv               \* *Srv instances the server pool can construct
Sess == 1..MaxSes               \* *Ses instances the session pool can construct
Handles == 1..MaxOpens          \* native OCIServer handles, one per successful open
ENV == 1                        \* the one *Env

ZeroCfg == "zero"               \* SrvCfg{} / StmtCfg{} : IsZero() is true
UserCfg == "user"               \* a configuration a caller set
EnvCfg == "envcfg"              \* the environment's statement configuration
ManualCfg == "manual"           \* a configuration a caller set, IsAutoCommitting false

VARIABLES
    serial,        \* callers serialise their calls
    envOpen,       \* env.ocienv # nil
    isPkgEnv,      \* env.isPkgEnv
    envOpenSrvs,   \* env.openSrvs
    srv,           \* srv[s] : the fields of *Srv s
    srvPool,       \* _drv.srvPool : how many times each instance is in the pool
    srvNew,        \* instances the pool's New has constructed
    nextHandle,    \* native server handles allocated so far
    detachCalls,   \* detachCalls[h] : OCIServerDetach invocations on handle h
    ses,           \* ses[e] : the fields of *Ses e
    sesPool,       \* _drv.sesPool
    sesNew,        \* Ses instances constructed
    th,            \* th[t] : the position and the locals of caller t
    closedRefs,    \* the *Srv references on which a Close has torn the server down
    stmt,          \* stmt[x] : the fields of *Stmt x
    stmtPool,      \* _drv.stmtPool : how many times each instance is in the pool
    stmtNew,       \* Stmt instances constructed
    rset,          \* rset[r] : the state of *Rset r and the statement it is open on
    last           \* the last call on a statement: its arguments and what it returned

srvVars == <<envOpen, isPkgEnv, envOpenSrvs, srv, srvPool, srvNew, nextHandle,
             detachCalls, ses, sesPool, sesNew, th, closedRefs>>
stmtVars == <<stmt, stmtPool, stmtNew, rset, last>>

\* ------------------------------------------------------------ error values
\* er("Srv is closed.") and the like: the AlreadyClosed class
ErrClosed(what) == [kind |-> "closed", what |-> what]
ErrParam == [kind |-> "param"]                  \* er("Parameter ... may not be nil.")
ErrOci == [kind |-> "oci"]                      \* env.ociError()
ErrFault == [kind |-> "fault"]                  \* errR(recover())
ErrChild(e) == [kind |-> "child", ses |-> e]    \* the error of one ses.close()

\* newMultiErrL: nil for an empty list, otherwise one error holding the list
NewMultiErrL(errs) ==
    IF errs = <<>> THEN NIL ELSE [kind |-> "multi", errs |-> errs]

\* ------------------------------------------------------------ Srv queries
\* Env.checkClosed (nil receiver allowed)
EnvCheckClosed(env) ==
    IF env = NULL \/ ~envOpen THEN ErrClosed("Env") ELSE NIL

\* Srv.checkClosed
SrvCheckClosed(s) ==
    IF s = NULL THEN ErrClosed("Srv")
    ELSE IF srv[s].ocisrv = NULL THEN ErrClosed("Srv")
    ELSE EnvCheckClosed(srv[s].env)

\* Srv.IsOpen
SrvIsOpen(s) == SrvCheckClosed(s) = NIL

\* Srv.NumSes
SrvNumSes(s) == IF s = NULL THEN 0 ELSE Cardinality(srv[s].openSess)

\* ------------------------------------------------------------ thread locals
Idle == [pc |-> "idle", op |-> "none", srv |-> NULL, errs |-> <<>>, ret |-> NIL,
         rses |-> NULL, todo |-> {}, arg |-> ZeroCfg,
         wasOpen |-> FALSE, hadSess |-> {}, childFailed |-> {},
         detachFailed |-> FALSE, faulted |-> FALSE, rlocked |-> FALSE,
         x |-> NULL, holds |-> "none", hadRsets |-> {}]

\* a caller left srv s read-locked: a fault between RLock and RUnlock
Leaked(s) == \E u \in Threads : th[u].rlocked /\ th[u].srv = s

\* a caller waits in srv.Lock() for a read lock that is never released; RLock
\* blocks behind a waiting writer
WriterWaiting(s) ==
    s # NULL /\ Leaked(s) /\ \E u \in Threads : th[u].pc = "df_nil" /\ th[u].srv = s

\* a new call may start
CanStart(t) ==
    /\ th[t].pc = "idle"
    /\ serial => \A u \in Threads : th[u].pc = "idle"

\* the caller takes the result and is free for the next call
Return(t) ==
    /\ th[t].pc = "ret"
    /\ th' = [th EXCEPT ![t] = Idle]
    /\ UNCHANGED <<serial, stmtVars, closedRefs, envOpen, isPkgEnv, envOpenSrvs, srv, srvPool, srvNew,
                   nextHandle, detachCalls, ses, sesPool, sesNew>>

\* a fixed order of a finite set of sessions
RECURSIVE SetToSeq(_)
SetToSeq(S) ==
    IF S = {} THEN <<>>
    ELSE LET m == CHOOSE x \in S : \A y \in S : x <= y
         IN <<m>> \o SetToSeq(S \ {m})

\* every variable but th and serial
UNCHANGED_srvState ==
    UNCHANGED <<envOpen, isPkgEnv, envOpenSrvs, srv, srvPool, srvNew, nextHandle,
                detachCalls, ses, sesPool, sesNew>>

\* what a caller's locals become when srv.close() returns err: the public Close
\* returns it to the caller, Env.Close goes on with the next server
CloseReturns(rec, err) ==
    IF rec.op = "EnvClose"
    THEN [rec EXCEPT !.pc = "ec_next", !.ret = err, !.errs = <<>>]
    ELSE [rec EXCEPT !.pc = "ret", !.ret = err]

\* ---------------------------------------------------------------- Srv.Close
\* Srv.Close and closeWithRemove up to the read of srv.env
Srv_Close(t, s) ==
    /\ CanStart(t)
    /\ s \in {NULL} \cup (1..srvNew)
    /\ ~WriterWaiting(s)
    /\ th' = [th EXCEPT ![t] =
                IF s = NULL \/ srv[s].env = NULL
                THEN [Idle EXCEPT !.pc = "ret", !.op = "Close", !.srv = s, !.ret = NIL,
                                  !.wasOpen = SrvIsOpen(s)]
                ELSE [Idle EXCEPT !.pc = "cwr_remove", !.op = "Close", !.srv = s,
                                  !.wasOpen = SrvIsOpen(s)]]
    /\ UNCHANGED_srvState
    /\ UNCHANGED <<serial, stmtVars, closedRefs>>

\* closeWithRemove: env.openSrvs.remove(srv), then srv.close()
Srv_closeWithRemove(t) ==
    /\ th[t].pc = "cwr_remove"
    /\ envOpenSrvs' = envOpenSrvs \ {th[t].srv}
    /\ th' = [th EXCEPT ![t].pc = "cl_check"]
    /\ UNCHANGED <<serial, stmtVars, closedRefs, envOpen, isPkgEnv, srv, srvPool, srvNew, nextHandle,
                   detachCalls, ses, sesPool, sesNew>>

\* close: checkClosed reads srv.ocisrv under the read lock
Srv_close_checkHandle(t) ==
    /\ th[t].pc = "cl_check"
    /\ ~WriterWaiting(th[t].srv)
    /\ th' = [th EXCEPT ![t] =
                IF srv[th[t].srv].ocisrv = NULL
                THEN CloseReturns(th[t], ErrClosed("Srv"))
                ELSE [th[t] EXCEPT !.pc = "cl_check2"]]
    /\ UNCHANGED_srvState
    /\ UNCHANGED <<serial, stmtVars, closedRefs>>

\* close: checkClosed goes on to srv.env.checkClosed(), without the lock
Srv_close_checkEnv(t) ==
    /\ th[t].pc = "cl_check2"
    /\ LET e == EnvCheckClosed(srv[th[t].srv].env)
       IN th' = [th EXCEPT ![t] =
                IF e # NIL THEN CloseReturns(th[t], e)
                ELSE [th[t] EXCEPT !.pc = "cl_closeAll"]]
    /\ UNCHANGED_srvState
    /\ UNCHANGED <<serial, stmtVars, closedRefs>>

\* ------------------------------------------------------------ statements
Stmts == 1..MaxStmt             \* *Stmt instances the statement pool can construct

\* a nil slice: no backing array
NilSlice == [a |-> <<>>, len |-> 0]

\* the fields of a Stmt after the reset of Stmt.close, and of a new instance;
\* locked: the statement's mutex is write-locked and no caller will unlock it;
\* stale: the positions of the backing array of bnds whose descriptor was put
\* there before the last bind pass; dropped: the last bind pass lost a descriptor
\* taken from a pool without closing it; rleak: a call that has returned left
\* the statement's mutex read-locked
StmtZero == [ses |-> NULL, ocistmt |-> NULL, stmtType |-> "none", returning |-> FALSE,
             bnds |-> NilSlice, hasPtrBind |-> FALSE, openRsets |-> {}, cfg |-> ZeroCfg,
             locked |-> FALSE, stale |-> {}, dropped |-> FALSE, rleak |-> FALSE]

\* ------------------------------------------------------------ result sets
MaxRset == 2       \* *Rset instances the result-set pool can construct

Rsets == 1..MaxRset

\* an Rset the pool has not constructed yet, and one that lies in the pool
RsetNew == [state |-> "new", stmt |-> NULL]
RsetPooled == [state |-> "pooled", stmt |-> NULL]

\* _drv.rsetPool.Get(): an instance of the pool, or a new one when it is empty
RsetPool_Get ==
    IF \E r \in Rsets : rset[r].state = "pooled"
    THEN {r \in Rsets : rset[r].state = "pooled"}
    ELSE {r \in Rsets : rset[r].state = "new" /\ \A q \in 1..(r - 1) : rset[q].state # "new"}

\* rset.open(stmt, ocistmt) succeeded: the Rset is open on statement x
RsetOpen(x) == [state |-> "open", stmt |-> x]

\* rset.close(): the Rset is closed and put back in the pool
RsetClosed == RsetPooled

\* openRsets.closeAll(): every Rset of R is closed
RsetList_closeAll(R) == [r \in Rsets |-> IF r \in R THEN RsetClosed ELSE rset[r]]

\* Stmt.close of the open statements of S: binds and result sets are closed, the
\* native statement is released, the fields are reset and the Stmt is pooled
Stmt_close(S) ==
    /\ stmt' = [x \in Stmts |-> IF x \in S /\ stmt[x].ocistmt # NULL THEN StmtZero ELSE stmt[x]]
    /\ stmtPool' = [x \in Stmts |-> IF x \in S /\ stmt[x].ocistmt # NULL
                                   THEN stmtPool[x] + 1 ELSE stmtPool[x]]
    /\ rset' = RsetList_closeAll(UNION {stmt[x].openRsets : x \in {y \in S : stmt[y].ocistmt # NULL}})

\* ------------------------------------------------------------ sessions
\* Ses.close of an open session: the session is reset and pooled whether or not
\* its teardown reported an error
SesClosed == [srv |-> NULL, ocises |-> NULL, cfg |-> ZeroCfg, openStmts |-> {}, openTxs |-> 0]

\* the statements open on the open sessions of S
OpenStmtsOf(S) == UNION {ses[e].openStmts : e \in {f \in S : ses[f].ocises # NULL}}

\* sesList.closeAll: every session of the list is closed, in order, and its
\* statements with it; a session that is closed already only reports so
SesList_closeAll(S) ==
    /\ ses' = [e \in Sess |-> IF e \in S /\ ses[e].ocises # NULL THEN SesClosed ELSE ses[e]]
    /\ sesPool' = sesPool \cup {e \in S : ses[e].ocises # NULL}
    /\ Stmt_close(OpenStmtsOf(S))

\* the errors sesList.closeAll pushes onto errs, one for each failed close
ChildErrs(failing) ==
    [i \in 1..Cardinality(failing) |-> ErrChild(SetToSeq(failing)[i])]

\* a close that never calls openSess.closeAll: the sessions stay as they are
Srv_close_closeAll_skipped(t) ==
    /\ th[t].pc = "cl_closeAll"
    /\ th' = [th EXCEPT ![t].hadSess = srv[th[t].srv].openSess, ![t].pc = "cl_detach"]
    /\ UNCHANGED_srvState
    /\ UNCHANGED <<serial, stmtVars, closedRefs>>

\* close: openSess.closeAll(errs); the close of a statement left write-locked
\* never returns
Srv_close_closeAll(t) ==
    /\ th[t].pc = "cl_closeAll"
    /\ LET S == srv[th[t].srv].openSess
       IN /\ \A x \in OpenStmtsOf(S) : ~stmt[x].locked
          /\ \E failing \in SUBSET S :
            /\ {e \in S : ses[e].ocises = NULL} \subseteq failing
            /\ SesList_closeAll(S)
            /\ th' = [th EXCEPT ![t].errs = @ \o ChildErrs(failing),
                                ![t].hadSess = S,
                                ![t].childFailed = failing,
                                ![t].pc = "cl_detach"]
    /\ UNCHANGED <<serial, stmtNew, last, closedRefs, envOpen, isPkgEnv, envOpenSrvs, srv,
                   srvPool, srvNew, nextHandle, detachCalls, sesNew>>

\* close: OCIServerDetach(srv.ocisrv, srv.env.ocierr) under the read lock; a nil
\* srv.env is a fault the deferred function recovers, and the read lock stays held
Srv_close_detach(t) ==
    /\ th[t].pc = "cl_detach"
    /\ ~WriterWaiting(th[t].srv)
    /\ LET s == th[t].srv
           h == srv[s].ocisrv
       IN IF srv[s].env = NULL
          THEN /\ th' = [th EXCEPT ![t].faulted = TRUE, ![t].rlocked = TRUE,
                                   ![t].pc = "df_cfg"]
               /\ UNCHANGED detachCalls
          ELSE \E r \in {"ok", "error"} :
               /\ detachCalls' = IF h = NULL THEN detachCalls
                                 ELSE [detachCalls EXCEPT ![h] = @ + 1]
               /\ th' = [th EXCEPT ![t].detachFailed = (r = "error"),
                                   ![t].pc = IF r = "error" THEN "cl_detachErr"
                                             ELSE "df_cfg"]
    /\ UNCHANGED <<serial, stmtVars, closedRefs, envOpen, isPkgEnv, envOpenSrvs, srv, srvPool, srvNew,
                   nextHandle, ses, sesPool, sesNew>>

\* a close that drops the error of the detach
Srv_close_detachErr_dropped(t) ==
    /\ th[t].pc = "cl_detachErr"
    /\ th' = [th EXCEPT ![t].pc = "df_cfg"]
    /\ UNCHANGED_srvState
    /\ UNCHANGED <<serial, stmtVars, closedRefs>>

\* close: r == OCI_ERROR: errs.PushBack(errE(srv.env.ociError()))
Srv_close_detachErr(t) ==
    /\ th[t].pc = "cl_detachErr"
    /\ th' = [th EXCEPT ![t] =
                IF srv[th[t].srv].env = NULL
                THEN [th[t] EXCEPT !.faulted = TRUE, !.pc = "df_cfg"]
                ELSE [th[t] EXCEPT !.errs = Append(@, ErrOci), !.pc = "df_cfg"]]
    /\ UNCHANGED_srvState
    /\ UNCHANGED <<serial, stmtVars, closedRefs>>

\* close, deferred: recover and srv.SetCfg(SrvCfg{})
Srv_close_deferCfg(t) ==
    /\ th[t].pc = "df_cfg"
    /\ th' = [th EXCEPT ![t].errs = IF th[t].faulted THEN Append(@, ErrFault) ELSE @,
                        ![t].pc = "df_clear"]
    /\ srv' = [srv EXCEPT ![th[t].srv].cfg = ZeroCfg]
    /\ UNCHANGED <<serial, stmtVars, closedRefs, envOpen, isPkgEnv, envOpenSrvs, srvPool, srvNew,
                   nextHandle, detachCalls, ses, sesPool, sesNew>>

\* close, deferred: openSess.clear()
Srv_close_deferClear(t) ==
    /\ th[t].pc = "df_clear"
    /\ th' = [th EXCEPT ![t].pc = "df_nil"]
    /\ srv' = [srv EXCEPT ![th[t].srv].openSess = {}]
    /\ UNCHANGED <<serial, stmtVars, closedRefs, envOpen, isPkgEnv, envOpenSrvs, srvPool, srvNew,
                   nextHandle, detachCalls, ses, sesPool, sesNew>>

\* a deferred function that leaves srv.env and srv.ocisrv set
Srv_close_deferNil_kept(t) ==
    /\ th[t].pc = "df_nil"
    /\ th' = [th EXCEPT ![t].pc = "df_put"]
    /\ UNCHANGED_srvState
    /\ UNCHANGED <<serial, stmtVars, closedRefs>>

\* close, deferred: srv.env = nil; srv.ocisrv = nil under the write lock, which
\* waits for every read lock to be released
Srv_close_deferNil(t) ==
    /\ th[t].pc = "df_nil"
    /\ ~Leaked(th[t].srv)
    /\ th' = [th EXCEPT ![t].pc = "df_put"]
    /\ srv' = [srv EXCEPT ![th[t].srv].env = NULL, ![th[t].srv].ocisrv = NULL]
    /\ UNCHANGED <<serial, stmtVars, closedRefs, envOpen, isPkgEnv, envOpenSrvs, srvPool, srvNew,
                   nextHandle, detachCalls, ses, sesPool, sesNew>>

\* close, deferred: _drv.srvPool.Put(srv); err = newMultiErrL(errs); return
Srv_close_deferPut(t) ==
    /\ th[t].pc = "df_put"
    /\ srvPool' = [srvPool EXCEPT ![th[t].srv] = @ + 1]
    /\ th' = [th EXCEPT ![t] = CloseReturns(th[t], NewMultiErrL(th[t].errs))]
    /\ closedRefs' = IF th[t].op = "Close" THEN closedRefs \cup {th[t].srv} ELSE closedRefs
    /\ UNCHANGED <<serial, stmtVars, envOpen, isPkgEnv, envOpenSrvs, srv, srvNew,
                   nextHandle, detachCalls, ses, sesPool, sesNew>>

\* -------------------------------------------------------------- Env.OpenSrv
\* the pool's Get: a pooled instance when there is one, else a new one
PoolGet(pool, new, Universe) ==
    IF \E x \in Universe : pool[x] > 0
    THEN {x \in Universe : pool[x] > 0}
    ELSE {x \in Universe : x = new + 1}

\* Env.OpenSrv: attach, take a Srv from the pool, set its fields, register it
Env_OpenSrv(t) ==
    /\ CanStart(t)
    /\ envOpen
    /\ nextHandle < MaxOpens
    /\ \E s \in PoolGet(srvPool, srvNew, Srvs) :
         /\ srvPool' = IF srvPool[s] > 0 THEN [srvPool EXCEPT ![s] = @ - 1] ELSE srvPool
         /\ srvNew' = IF srvPool[s] > 0 THEN srvNew ELSE srvNew + 1
         /\ srv' = [srv EXCEPT ![s].env = ENV, ![s].ocisrv = nextHandle + 1,
                               ![s].cfg = UserCfg]
         /\ envOpenSrvs' = envOpenSrvs \cup {s}
    /\ nextHandle' = nextHandle + 1
    /\ UNCHANGED <<serial, stmtVars, closedRefs, envOpen, isPkgEnv, detachCalls, ses, sesPool, sesNew, th>>

\* ---------------------------------------------------------------- Env.Close
\* Env.Close: the cascade starts
Env_Close(t) ==
    /\ CanStart(t)
    /\ envOpen
    /\ th' = [th EXCEPT ![t] = [Idle EXCEPT !.pc = "ec_next", !.op = "EnvClose",
                                            !.todo = envOpenSrvs]]
    /\ UNCHANGED_srvState
    /\ UNCHANGED <<serial, stmtVars, closedRefs>>

\* Env.Close: openSrvs.closeAll calls srv.close() on the next server; after the
\* last one the environment's handle is freed
Env_Close_next(t) ==
    /\ th[t].pc = "ec_next"
    /\ IF th[t].todo # {}
       THEN /\ \E s \in th[t].todo :
                 th' = [th EXCEPT ![t] = [Idle EXCEPT !.pc = "cl_check", !.op = "EnvClose",
                                                      !.srv = s, !.todo = th[t].todo \ {s},
                                                      !.wasOpen = SrvIsOpen(s)]]
            /\ UNCHANGED <<envOpen, envOpenSrvs>>
       ELSE /\ envOpen' = FALSE
            /\ envOpenSrvs' = {}
            /\ th' = [th EXCEPT ![t] = [Idle EXCEPT !.pc = "ret", !.op = "EnvClose"]]
    /\ UNCHANGED <<serial, stmtVars, closedRefs, isPkgEnv, srv, srvPool, srvNew, nextHandle, detachCalls,
                   ses, sesPool, sesNew>>

\* -------------------------------------------------------------- Srv.OpenSes
\* an OpenSes that goes on to the provider without srv.checkClosed()
Srv_OpenSes_unchecked(t, s, cfg) ==
    /\ CanStart(t)
    /\ s \in {NULL} \cup (1..srvNew)
    /\ cfg # ZeroCfg => ~WriterWaiting(s)
    /\ sesNew + Cardinality({u \in Threads : th[u].pc \in {"os_alloc", "os_reg"}}) < MaxSes
       \/ cfg = ZeroCfg \/ ~SrvIsOpen(s)
    /\ th' = [th EXCEPT ![t] =
                IF cfg = ZeroCfg
                THEN [Idle EXCEPT !.pc = "ret", !.op = "OpenSes", !.srv = s, !.arg = cfg,
                                  !.ret = ErrParam]
                ELSE IF s = NULL
                THEN [Idle EXCEPT !.pc = "ret", !.op = "OpenSes", !.srv = s, !.arg = cfg,
                                  !.ret = ErrParam]
                ELSE [Idle EXCEPT !.pc = "os_alloc", !.op = "OpenSes", !.srv = s,
                                  !.arg = cfg, !.wasOpen = SrvIsOpen(s)]]
    /\ UNCHANGED_srvState
    /\ UNCHANGED <<serial, stmtVars, closedRefs>>

\* OpenSes up to checkClosed
Srv_OpenSes(t, s, cfg) ==
    /\ CanStart(t)
    /\ s \in {NULL} \cup (1..srvNew)
    /\ cfg # ZeroCfg => ~WriterWaiting(s)
    /\ sesNew + Cardinality({u \in Threads : th[u].pc \in {"os_alloc", "os_reg"}}) < MaxSes
       \/ cfg = ZeroCfg \/ ~SrvIsOpen(s)
    /\ th' = [th EXCEPT ![t] =
                IF cfg = ZeroCfg
                THEN [Idle EXCEPT !.pc = "ret", !.op = "OpenSes", !.srv = s, !.arg = cfg,
                                  !.ret = ErrParam]
                ELSE IF s = NULL
                THEN [Idle EXCEPT !.pc = "ret", !.op = "OpenSes", !.srv = s, !.arg = cfg,
                                  !.ret = ErrParam]
                ELSE IF SrvCheckClosed(s) # NIL
                THEN [Idle EXCEPT !.pc = "ret", !.op = "OpenSes", !.srv = s, !.arg = cfg,
                                  !.ret = SrvCheckClosed(s)]
                ELSE [Idle EXCEPT !.pc = "os_alloc", !.op = "OpenSes", !.srv = s,
                                  !.arg = cfg, !.wasOpen = TRUE]]
    /\ UNCHANGED_srvState
    /\ UNCHANGED <<serial, stmtVars, closedRefs>>

\* OpenSes: handle allocation, attributes and OCISessionBegin through srv.env; a
\* nil srv.env is a fault the deferred function recovers
Srv_OpenSes_provider(t) ==
    /\ th[t].pc = "os_alloc"
    /\ IF srv[th[t].srv].env = NULL
       THEN th' = [th EXCEPT ![t].pc = "ret", ![t].ret = ErrFault]
       ELSE \E r \in {"ok", "error"} :
              th' = [th EXCEPT ![t].pc = IF r = "ok" THEN "os_reg" ELSE "ret",
                               ![t].ret = IF r = "ok" THEN NIL ELSE ErrOci]
    /\ UNCHANGED_srvState
    /\ UNCHANGED <<serial, stmtVars, closedRefs>>

\* an OpenSes that returns the session without srv.openSess.add(ses)
Srv_OpenSes_register_noAdd(t) ==
    /\ th[t].pc = "os_reg"
    /\ \E e \in (IF sesPool # {} THEN sesPool ELSE {x \in Sess : x = sesNew + 1}) :
         /\ sesPool' = sesPool \ {e}
         /\ sesNew' = IF e \in sesPool THEN sesNew ELSE sesNew + 1
         /\ ses' = [ses EXCEPT ![e] = [srv |-> th[t].srv, ocises |-> 1, cfg |-> UserCfg,
                                       openStmts |-> {}, openTxs |-> 0]]
         /\ th' = [th EXCEPT ![t].pc = "ret", ![t].ret = NIL, ![t].rses = e]
    /\ UNCHANGED <<serial, stmtVars, closedRefs, envOpen, isPkgEnv, envOpenSrvs, srvPool, srvNew, nextHandle,
                   detachCalls, srv>>

\* OpenSes: take a Ses from the pool, set its fields, srv.openSess.add(ses)
Srv_OpenSes_register(t) ==
    /\ th[t].pc = "os_reg"
    /\ \E e \in (IF sesPool # {} THEN sesPool ELSE {x \in Sess : x = sesNew + 1}) :
         /\ sesPool' = sesPool \ {e}
         /\ sesNew' = IF e \in sesPool THEN sesNew ELSE sesNew + 1
         /\ ses' = [ses EXCEPT ![e] = [srv |-> th[t].srv, ocises |-> 1, cfg |-> UserCfg,
                                       openStmts |-> {}, openTxs |-> 0]]
         /\ srv' = [srv EXCEPT ![th[t].srv].openSess = @ \cup {e}]
         /\ th' = [th EXCEPT ![t].pc = "ret", ![t].ret = NIL, ![t].rses = e]
    /\ UNCHANGED <<serial, stmtVars, closedRefs, envOpen, isPkgEnv, envOpenSrvs, srvPool, srvNew, nextHandle,
                   detachCalls>>

\* -------------------------------------------------------------- Srv.Version
\* Version up to checkClosed
Srv_Version(t, s) ==
    /\ CanStart(t)
    /\ s \in {NULL} \cup (1..srvNew)
    /\ ~WriterWaiting(s)
    /\ th' = [th EXCEPT ![t] =
                IF SrvCheckClosed(s) # NIL
                THEN [Idle EXCEPT !.pc = "ret", !.op = "Version", !.srv = s,
                                  !.ret = SrvCheckClosed(s)]
                ELSE [Idle EXCEPT !.pc = "ver_call", !.op = "Version", !.srv = s,
                                  !.wasOpen = TRUE]]
    /\ UNCHANGED_srvState
    /\ UNCHANGED <<serial, stmtVars, closedRefs>>

\* Version: OCIServerVersion(srv.ocisrv, srv.env.ocierr) under the read lock; a
\* nil srv.env is a fault nothing recovers, with the read lock held
Srv_Version_provider(t) ==
    /\ th[t].pc = "ver_call"
    /\ ~WriterWaiting(th[t].srv)
    /\ IF srv[th[t].srv].env = NULL
       THEN th' = [th EXCEPT ![t].pc = "crashed", ![t].faulted = TRUE, ![t].rlocked = TRUE]
       ELSE \E r \in {"ok", "error"} :
              th' = [th EXCEPT ![t].pc = "ret",
                               ![t].ret = IF r = "ok" THEN NIL ELSE ErrOci]
    /\ UNCHANGED_srvState
    /\ UNCHANGED <<serial, stmtVars, closedRefs>>

\* ------------------------------------------------------------ statement queries
\* Stmt.IsOpen: RLock on a nil receiver dereferences nil, RLock on a statement
\* left write-locked never returns
Stmt_IsOpen_result(x) ==
    IF x = NULL THEN "panic"
    ELSE IF stmt[x].locked THEN "blocked"
    ELSE IF stmt[x].ocistmt # NULL THEN "true" ELSE "false"

\* Stmt.checkClosed
StmtCheckClosed(x) ==
    IF stmt[x].ocistmt = NULL THEN ErrClosed("Stmt") ELSE NIL

\* ------------------------------------------------------------ parameters
\* The dynamic types of the type switch of Stmt.bind that the model keeps:
\*   int64     a scalar value
\*   Int64     a nullable wrapper whose NULL bind drops the error of setNilBind;
\*             with IsNull false it takes the bind struct of int64
\*   Bfile     a nullable wrapper whose NULL bind keeps the error of setNilBind
\*             (only its NULL form is kept)
\*   nil       a raw nil
\*   *int64    an output pointer
\*   []bool    a batch of n values, whose length the dispatcher takes as the
\*             iteration count (the other slice kinds take it from bnd.bind)
\*   []interface{}  a slice of untyped elements
\*   other     a type the switch does not know
\* null is the wrapper's IsNull; fail says that the provider rejects this bind
\* (kept for the value binder of int64 and for the NULL binder).
ParamKinds == {"int64", "Int64", "Bfile", "nil", "*int64", "[]bool", "[]interface{}",
               "other"}
Params ==
    {p \in [k : ParamKinds, null : BOOLEAN, n : 0..MaxBatch, fail : BOOLEAN] :
        /\ p.null => p.k \in {"Int64", "Bfile"}
        /\ p.k = "Bfile" => p.null
        /\ p.n # 0 => p.k = "[]bool"
        /\ p.fail => (p.k \in {"int64", "nil"} \/ (p.k = "Int64" /\ p.null))}

ParamLists == UNION {[1..k -> Params] : k \in 0..MaxParams}

\* the wire-type tag of the NULL bind of each kind
NullTag(k) ==
    CASE k = "Int64" -> "SQLT_INT"
      [] k = "Bfile" -> "SQLT_FILE"
      [] OTHER -> "SQLT_CHR"

\* the bind struct taken from _drv.bndPools for a value of each kind
BndOf(k) ==
    CASE k = "int64" -> "bndInt64"
      [] k = "Int64" -> "bndInt64"
      [] k = "Bfile" -> "bndBfile"
      [] k = "*int64" -> "bndInt64Ptr"
      [] k = "[]bool" -> "bndBoolSlice"
      [] OTHER -> "none"

\* a parameter that is bound as NULL
IsNullParam(p) == p.k = "nil" \/ (p.k \in {"Int64", "Bfile"} /\ p.null)

\* the parameters have shapes the dispatcher supports and the provider accepts
\* each bind
Bindable(ps) ==
    \A i \in 1..Len(ps) : ps[i].k \notin {"other", "[]interface{}"} /\ ~ps[i].fail

\* the positions of the batch parameters
Batches(ps) == {i \in 1..Len(ps) : ps[i].k = "[]bool"}

NoBnd == [bnd |-> "nil", tag |-> "none"]                \* a nil entry of []bnd
ValBnd(k) == [bnd |-> BndOf(k), tag |-> "value"]        \* a value bind struct
NilBnd(tag) == [bnd |-> "bndNil", tag |-> tag]          \* a bndNil bound with tag

Cap(sl) == Len(sl.a)

\* ---------------------------------------------------------------- Stmt.bind
\* The state of one bind pass.  old is the backing array of stmt.bnds and
\* oldLen its length; the local slice bnds is old resliced (aliased) when its
\* capacity suffices, else the new array new.
\* the start of the pass
BindStart(st, k) ==
    [old |-> st.bnds.a, oldLen |-> st.bnds.len,
     aliased |-> ~(Cap(st.bnds) < k),
     new |-> [i \in 1..k |-> NoBnd],
     hasPtrBind |-> st.hasPtrBind, iterations |-> 1, err |-> NIL,
     status |-> "run", invoked |-> {},
     staleOld |-> {i \in 0..(Cap(st.bnds) - 1) : st.bnds.a[i + 1] # NoBnd},
     dropped |-> FALSE]

\* bnds[n] = bnd
SetLocal(b, n, d) ==
    IF b.aliased
    THEN [b EXCEPT !.old[n + 1] = d, !.staleOld = @ \ {n},
                   !.dropped = @ \/ b.old[n + 1] # NoBnd]
    ELSE [b EXCEPT !.new[n + 1] = d]

\* Stmt.setNilBind without its result: stmt.bnds[index] = bnd between stmt.Lock()
\* and stmt.Unlock(); an index out of the range of stmt.bnds panics there
SetNilBind(b, n, tag) ==
    IF n >= b.oldLen THEN [b EXCEPT !.status = "panic", !.dropped = TRUE]
    ELSE [b EXCEPT !.old[n + 1] = NilBnd(tag), !.staleOld = @ \ {n},
                   !.dropped = @ \/ b.old[n + 1] # NoBnd]

\* the error of bnd.bind
BindErr(p) == IF p.fail THEN ErrOci ELSE NIL

\* errF("Invalid bind parameter ..."): the text holds the dynamic type and the
\* value of the parameter
ErrBindParam(k) == [kind |-> "bindparam", type |-> k]

\* the result of a bind call: err is assigned; when check, a non-nil err returns
Assign(b, err, check) ==
    IF b.status # "run" THEN b
    ELSE IF check /\ err # NIL THEN [b EXCEPT !.err = err, !.status = "ret"]
    ELSE [b EXCEPT !.err = err]

\* a value binder is called at index n; its error returns at once
BindValue(b, p, n) ==
    Assign([SetLocal(b, n, ValBnd(p.k)) EXCEPT !.invoked = @ \cup {n}], BindErr(p), TRUE)

\* stmt.hasPtrBind = true, after a bind that did not return
MarkPtr(b) == IF b.status = "run" THEN [b EXCEPT !.hasPtrBind = TRUE] ELSE b

\* iterations = uint32(len(value)), after a bind that did not return
SetIterations(b, len) == IF b.status = "run" THEN [b EXCEPT !.iterations = len] ELSE b

\* one round of the loop of Stmt.bind: the case of params[n]
BindOne(b, p, n) ==
    CASE p.k = "int64" -> BindValue(b, p, n)
      [] p.k = "Int64" ->
           IF p.null THEN SetNilBind(b, n, "SQLT_INT")
           ELSE BindValue(b, p, n)
      [] p.k = "Bfile" -> Assign(SetNilBind(b, n, "SQLT_FILE"), BindErr(p), FALSE)
      [] p.k = "nil" -> Assign(SetNilBind(b, n, "SQLT_CHR"), BindErr(p), FALSE)
      [] p.k = "*int64" -> MarkPtr(BindValue(b, p, n))
      [] p.k = "[]bool" -> SetIterations(BindValue(b, p, n), p.n)
      [] OTHER -> [b EXCEPT !.err = ErrBindParam(p.k), !.status = "ret"]

\* the loop of Stmt.bind over params[n..]
RECURSIVE BindLoop(_, _, _)
BindLoop(b, params, n) ==
    IF n >= Len(params) \/ b.status # "run" THEN b
    ELSE BindLoop(BindOne(b, params[n + 1], n), params, n + 1)

\* Stmt.bind after its loop: stmt.bnds = bnds only when the loop ran to its end;
\* a panic of setNilBind leaves the statement write-locked
BindEnd(st, b, k) ==
    [st |-> [st EXCEPT !.bnds = IF b.status # "run" THEN [a |-> b.old, len |-> b.oldLen]
                                ELSE IF b.aliased THEN [a |-> b.old, len |-> k]
                                ELSE [a |-> b.new, len |-> k],
                       !.hasPtrBind = b.hasPtrBind,
                       !.locked = (b.status = "panic"),
                       !.stale = IF b.status = "run" /\ ~b.aliased THEN {} ELSE b.staleOld,
                       !.dropped =
                          \/ b.dropped
                          \/ /\ ~b.aliased
                             /\ \E i \in 1..Len(IF b.status = "run" THEN b.old ELSE b.new) :
                                   (IF b.status = "run" THEN b.old ELSE b.new)[i] # NoBnd],
     iterations |-> b.iterations, err |-> b.err,
     status |-> IF b.status = "run" THEN "ret" ELSE b.status, invoked |-> b.invoked]

\* Stmt.bind: the pass over params and the statement's fields after it
Stmt_bind(st, params) ==
    IF Len(params) = 0
    THEN [st |-> [st EXCEPT !.dropped = FALSE,
                            !.stale = {i \in 0..(Cap(st.bnds) - 1) : st.bnds.a[i + 1] # NoBnd}],
          iterations |-> 1, err |-> NIL, status |-> "ret", invoked |-> {}]
    ELSE BindEnd(st, BindLoop(BindStart(st, Len(params)), params, 0), Len(params))

\* the statement's bound descriptor at index i (0-based), NoBnd beyond its length
BndAt(st, i) == IF i < st.bnds.len THEN st.bnds.a[i + 1] ELSE NoBnd

\* ------------------------------------------------------------ configuration
\* Env.Cfg: the environment's statement configuration
Env_Cfg == EnvCfg

\* Srv.Cfg().StmtCfg
Srv_Cfg(s) ==
    IF srv[s].cfg = ZeroCfg \/ isPkgEnv THEN Env_Cfg ELSE srv[s].cfg

\* Ses.Cfg().StmtCfg: the session's own, or its server's when unset
Ses_Cfg(e) ==
    IF ses[e].cfg = ZeroCfg \/ isPkgEnv THEN Srv_Cfg(ses[e].srv) ELSE ses[e].cfg

\* a resolution in which the statement's own configuration wins over the shared
\* environment's
Stmt_Cfg_ownFirst(st) ==
    IF st.cfg # ZeroCfg THEN st.cfg
    ELSE IF isPkgEnv THEN Env_Cfg
    ELSE Ses_Cfg(st.ses)

\* Stmt.Cfg
Stmt_Cfg(st) ==
    IF isPkgEnv THEN Env_Cfg
    ELSE IF st.cfg = ZeroCfg THEN Ses_Cfg(st.ses)
    ELSE st.cfg

\* StmtCfg.IsAutoCommitting of the configurations of the model
IsAutoCommitting(cfg) == cfg \in {UserCfg, EnvCfg}

\* ------------------------------------------------------------ Stmt calls
StmtKinds == {"Select", "Insert", "Other"}

\* what the provider does during one Exe: all goes well, or the one step named fails
Provider == {"ok", "prefetchFail", "execError", "noData", "attrFail", "setPtrFail"}

Call(op, x, params, out, err) ==
    [op |-> op, x |-> x, params |-> params, out |-> out, err |-> err,
     wasOpen |-> FALSE, iterations |-> 0, mode |-> "none", executed |-> FALSE,
     rows |-> 0, invoked |-> {}, bound |-> FALSE, r |-> "none", ptrs |-> <<>>,
     got |-> NULL, rset |-> NULL, ctx |-> "none", read |-> FALSE]

stmtFrame == UNCHANGED <<serial, srvVars>>

\* Ses.Prep: take a Stmt from the pool, set its fields, register it on the session
Ses_Prep(e, kind, returning) ==
    /\ last.op = "none"
    /\ ses[e].ocises # NULL
    /\ \E x \in PoolGet(stmtPool, stmtNew, Stmts) :
         /\ stmtPool' = IF stmtPool[x] > 0 THEN [stmtPool EXCEPT ![x] = @ - 1] ELSE stmtPool
         /\ stmtNew' = IF stmtPool[x] > 0 THEN stmtNew ELSE stmtNew + 1
         /\ stmt' = [stmt EXCEPT ![x].ses = e, ![x].ocistmt = 1, ![x].stmtType = kind,
                                 ![x].returning = returning]
         /\ ses' = [ses EXCEPT ![e].openStmts = @ \cup {x}]
         /\ last' = Call("Prep", x, <<>>, "nil", NIL)
    /\ UNCHANGED <<rset, serial, envOpen, isPkgEnv, envOpenSrvs, srv, srvPool, srvNew, nextHandle,
                   detachCalls, sesPool, sesNew, th, closedRefs>>

\* Stmt.Close and closeWithRemove: a statement with a session returns nil at
\* once; one without dereferences the nil session
Stmt_Close(x) ==
    /\ last.op = "none"
    /\ x \in {NULL} \cup (1..stmtNew)
    /\ last' = [Call("Close", x, <<>>,
                     IF x = NULL THEN "nil"
                     ELSE IF stmt[x].locked THEN "blocked"
                     ELSE IF ~(stmt[x].ses = NULL) THEN "nil"
                     ELSE "panic",
                     NIL)
                EXCEPT !.wasOpen = (x # NULL /\ stmt[x].ocistmt # NULL)]
    /\ UNCHANGED <<stmt, stmtPool, stmtNew, rset>>
    /\ stmtFrame

\* Stmt.IsOpen
Stmt_IsOpen(x) ==
    /\ last.op = "none"
    /\ x \in {NULL} \cup (1..stmtNew)
    /\ last' = Call("IsOpen", x, <<>>, Stmt_IsOpen_result(x), NIL)
    /\ UNCHANGED <<stmt, stmtPool, stmtNew, rset>>
    /\ stmtFrame

\* Ses.Close: the session is removed from its server, its statements are closed
\* (openStmts.closeAll calls stmt.close()), the session is ended and pooled; the
\* close of a statement left write-locked never returns (what the session's close
\* did before it is not modelled)
Ses_Close(e) ==
    /\ last.op = "none"
    /\ ses[e].ocises # NULL
    /\ IF \E x \in ses[e].openStmts : stmt[x].locked
       THEN /\ last' = Call("SesClose", NULL, <<>>, "blocked", NIL)
            /\ UNCHANGED <<stmt, stmtPool, rset, ses, sesPool, srv>>
       ELSE /\ Stmt_close(ses[e].openStmts)
            /\ ses' = [ses EXCEPT ![e] = SesClosed]
            /\ sesPool' = sesPool \cup {e}
            /\ srv' = [srv EXCEPT ![ses[e].srv].openSess = @ \ {e}]
            /\ last' = Call("SesClose", NULL, <<>>, "nil", NIL)
    /\ UNCHANGED <<serial, envOpen, isPkgEnv, envOpenSrvs, srvPool, srvNew, nextHandle,
                   detachCalls, sesNew, th, closedRefs, stmtNew>>

\* the *int64 that exe puts in the last slot to capture the identity
LastInsertIdPtr == [k |-> "*int64", null |-> FALSE, n |-> 0, fail |-> FALSE]

\* Stmt.setBindPtrs: setPtr on every entry of stmt.bnds, in the order of the
\* slice; a nil entry is a fault, and the provider's failure is one of the first
\* setPtr
SetBindPtrs(st, prov) ==
    IF prov = "setPtrFail" /\ st.bnds.len > 0 /\ BndAt(st, 0) # NoBnd THEN "err"
    ELSE IF \E i \in 0..(st.bnds.len - 1) : BndAt(st, i) = NoBnd THEN "panic"
    ELSE "ok"

\* Stmt.setBindPtrs: the indexes of the entries whose setPtr was called, in the
\* order of the calls
SetPtrCalls(st, prov) ==
    LET nils == {i \in 0..(st.bnds.len - 1) : BndAt(st, i) = NoBnd}
        k == IF SetBindPtrs(st, prov) = "err" THEN 1
             ELSE IF nils # {} THEN CHOOSE i \in nils : \A j \in nils : i <= j
             ELSE st.bnds.len
    IN [i \in 1..k |-> i - 1]

\* what Stmt.exe returns, with the statement's fields st1 after the call
ExeResult(out, err, st1, executed, rows, iterations, mode, invoked, reached) ==
    [out |-> out, err |-> err, st |-> st1, executed |-> executed, rows |-> rows,
     iterations |-> iterations, mode |-> IF executed THEN mode ELSE "none",
     invoked |-> invoked, reached |-> reached, r |-> "none", ptrs |-> <<>>,
     read |-> FALSE]

\* a mode selection that does not look at the session's open transactions
ExeMode_ignoringTxs(st) ==
    IF IsAutoCommitting(Stmt_Cfg(st)) THEN "COMMIT_ON_SUCCESS" ELSE "DEFAULT"

\* Stmt.exe: the mode of the execute
ExeMode(st) ==
    IF IsAutoCommitting(Stmt_Cfg(st)) /\ ses[st.ses].openTxs = 0
    THEN "COMMIT_ON_SUCCESS" ELSE "DEFAULT"

\* a row-count switch that leaves the queries out
Counted_noSelect(stmtType) == stmtType \in {"Update", "Delete", "Insert"}

\* Stmt.exe: the statement types whose row count is read after the execute
Counted(stmtType) == stmtType \in {"Select", "Update", "Delete", "Insert"}

\* Stmt.exe after the bind pass b: prefetch, mode, execute, row count, copy-back
Stmt_exe_run(b, prov) ==
    LET mode == ExeMode(b.st)
        r == CASE prov = "execError" -> "OCI_ERROR"
               [] prov = "noData" -> "OCI_NO_DATA"
               [] OTHER -> "OCI_SUCCESS"
        counted == Counted(b.st.stmtType)
        rows == IF counted THEN 1 ELSE 0
        ptrs == SetBindPtrs(b.st, prov)
        R(out, err, executed, n, read) ==
            [ExeResult(out, err, b.st, executed, n, b.iterations, mode, b.invoked, TRUE)
             EXCEPT !.r = IF executed THEN r ELSE "none", !.read = read]
    IN IF prov = "prefetchFail" THEN R("err", ErrOci, FALSE, 0, FALSE)
       ELSE IF r = "OCI_ERROR" THEN R("err", ErrOci, TRUE, 0, FALSE)
       ELSE IF counted /\ prov = "attrFail" THEN R("err", ErrOci, TRUE, 0, TRUE)
       ELSE IF ~counted /\ r = "OCI_NO_DATA" THEN R("err", ErrOci, TRUE, 0, FALSE)
       ELSE IF b.st.hasPtrBind /\ ptrs = "panic"
       THEN [R("err", ErrFault, TRUE, rows, counted) EXCEPT !.ptrs = SetPtrCalls(b.st, prov)]
       ELSE IF b.st.hasPtrBind /\ ptrs = "err"
       THEN [R("err", ErrOci, TRUE, rows, counted) EXCEPT !.ptrs = SetPtrCalls(b.st, prov)]
       ELSE IF b.st.hasPtrBind
       THEN [R("nil", NIL, TRUE, rows, counted) EXCEPT !.ptrs = SetPtrCalls(b.st, prov)]
       ELSE R("nil", NIL, TRUE, rows, counted)

\* Stmt.exe from the bind pass on: a fault or an error of the pass returns at once
Stmt_exe_bound(b, prov) ==
    IF b.status = "panic"
    THEN ExeResult("err", ErrFault, b.st, FALSE, 0, b.iterations, "none", b.invoked, FALSE)
    ELSE IF b.err # NIL
    THEN ExeResult("err", b.err, b.st, FALSE, 0, b.iterations, "none", b.invoked, FALSE)
    ELSE Stmt_exe_run(b, prov)

\* Stmt.exe: what the call returns and the statement's fields after it
Stmt_exe(st, params, prov) ==
    LET sub == isPkgEnv /\ st.stmtType = "Insert" /\ st.returning
    IN IF st.locked
       THEN ExeResult("blocked", NIL, st, FALSE, 0, 0, "none", {}, FALSE)
       ELSE IF st.ocistmt = NULL
       THEN ExeResult("err", ErrClosed("Stmt"), st, FALSE, 0, 0, "none", {}, FALSE)
       ELSE IF sub /\ Len(params) = 0
       THEN ExeResult("err", ErrFault, st, FALSE, 0, 0, "none", {}, FALSE)
       ELSE Stmt_exe_bound(
              Stmt_bind(st, IF sub THEN [params EXCEPT ![Len(params)] = LastInsertIdPtr]
                            ELSE params),
              prov)

\* the caller takes the result of the last call, if the call returned
Stmt_Return ==
    /\ last.op # "none"
    /\ last.out # "blocked"
    /\ last' = Call("none", NULL, <<>>, "nil", NIL)
    /\ UNCHANGED <<stmt, stmtPool, stmtNew, rset>>
    /\ stmtFrame

\* what the provider can do during an Exe: a failure of one of its steps only
\* when the call reaches the provider
ProviderFor(x, params) ==
    IF last.op # "none" \/ x > stmtNew THEN {}
    ELSE IF Stmt_exe(stmt[x], params, "ok").reached THEN Provider ELSE {"ok"}

\* Stmt.Exe
Stmt_Exe(x, params, prov) ==
    /\ last.op = "none"
    /\ x \in 1..stmtNew
    /\ \E res \in {Stmt_exe(stmt[x], params, prov)} :
          /\ stmt' = [stmt EXCEPT ![x] = res.st]
          /\ last' = [Call("Exe", x, params, res.out, res.err)
                      EXCEPT !.wasOpen = (stmt[x].ocistmt # NULL),
                             !.iterations = res.iterations, !.mode = res.mode,
                             !.executed = res.executed, !.rows = res.rows,
                             !.invoked = res.invoked, !.bound = res.reached,
                             !.r = res.r, !.ptrs = res.ptrs, !.read = res.read]
    /\ UNCHANGED <<stmtPool, stmtNew, rset>>
    /\ stmtFrame

\* ---------------------------------------------------------------- Stmt.Qry
\* what the provider does during one Qry: all goes well, or the one step named fails
QryProvider == {"ok", "prefetchFail", "execError", "setPtrFail", "openFail"}

\* what Stmt.qry has done when it comes to the result set (open is true), or
\* what it returns before, with the statement's fields st1 after it; r is what
\* OCIStmtExecute returned, "none" when it was not called
QryResult(out, err, st1, r, invoked, reached, ptrs, open) ==
    [out |-> out, err |-> err, st |-> st1, executed |-> (r # "none"), r |-> r,
     invoked |-> invoked, reached |-> reached, ptrs |-> ptrs, open |-> open]

\* Stmt.qry up to the copy-back: closed check, bind, prefetch, execute, setBindPtrs
Stmt_qry(st, params, prov) ==
    IF st.locked THEN QryResult("blocked", NIL, st, "none", {}, FALSE, <<>>, FALSE)
    ELSE IF st.ocistmt = NULL
    THEN QryResult("err", ErrClosed("Stmt"), st, "none", {}, FALSE, <<>>, FALSE)
    ELSE LET b == Stmt_bind(st, params)
             calls == IF b.st.hasPtrBind THEN SetPtrCalls(b.st, prov) ELSE <<>>
             ptrs == IF b.st.hasPtrBind THEN SetBindPtrs(b.st, prov) ELSE "ok"
         IN IF b.status = "panic"
            THEN QryResult("err", ErrFault, b.st, "none", b.invoked, FALSE, <<>>, FALSE)
            ELSE IF b.err # NIL
            THEN QryResult("err", b.err, b.st, "none", b.invoked, FALSE, <<>>, FALSE)
            ELSE IF prov = "prefetchFail"
            THEN QryResult("err", ErrOci, b.st, "none", b.invoked, TRUE, <<>>, FALSE)
            ELSE IF prov = "execError"
            THEN QryResult("err", ErrOci, b.st, "OCI_ERROR", b.invoked, TRUE, <<>>, FALSE)
            ELSE IF ptrs = "panic"
            THEN QryResult("err", ErrFault, b.st, "OCI_SUCCESS", b.invoked, TRUE, calls, FALSE)
            ELSE IF ptrs = "err"
            THEN QryResult("err", ErrOci, b.st, "OCI_SUCCESS", b.invoked, TRUE, calls, FALSE)
            ELSE QryResult("rset", NIL, b.st, "OCI_SUCCESS", b.invoked, TRUE, calls, TRUE)

\* what the provider can do during a Qry: a failure of one of its steps only
\* when the call reaches the provider
QryProviderFor(x, params) ==
    IF last.op # "none" \/ x > stmtNew THEN {}
    ELSE IF Stmt_qry(stmt[x], params, "ok").reached THEN QryProvider ELSE {"ok"}

\* the record of a Qry that returns res, having taken Rset got from the pool and
\* returning Rset r
QryCall(x, params, res, out, err, got, r) ==
    [Call("Qry", x, params, out, err)
     EXCEPT !.wasOpen = (stmt[x].ocistmt # NULL), !.mode = IF res.executed THEN "DEFAULT" ELSE "none",
            !.executed = res.executed, !.invoked = res.invoked, !.bound = res.reached,
            !.r = res.r, !.ptrs = res.ptrs, !.got = got, !.rset = r]

\* a Qry that returns the error of rset.open without closing the Rset
Stmt_Qry_openLeaked(x, params, prov) ==
    /\ last.op = "none"
    /\ x \in 1..stmtNew
    /\ \E res \in {Stmt_qry(stmt[x], params, prov)} :
          IF ~res.open
          THEN /\ stmt' = [stmt EXCEPT ![x] = res.st]
               /\ last' = QryCall(x, params, res, res.out, res.err, NULL, NULL)
               /\ UNCHANGED rset
          ELSE \E r \in RsetPool_Get :
                 IF prov = "openFail"
                 THEN /\ rset' = [rset EXCEPT ![r] = RsetOpen(x)]
                      /\ stmt' = [stmt EXCEPT ![x] = res.st]
                      /\ last' = QryCall(x, params, res, "err", ErrOci, r, NULL)
                 ELSE /\ rset' = [rset EXCEPT ![r] = RsetOpen(x)]
                      /\ stmt' = [stmt EXCEPT ![x] = [res.st EXCEPT !.openRsets = @ \cup {r}]]
                      /\ last' = QryCall(x, params, res, "rset", NIL, r, r)
    /\ UNCHANGED <<stmtPool, stmtNew>>
    /\ stmtFrame

\* Stmt.Qry: qry, then an Rset of the pool is opened on the statement and added
\* to stmt.openRsets; an Rset whose open failed is closed
Stmt_Qry(x, params, prov) ==
    /\ last.op = "none"
    /\ x \in 1..stmtNew
    /\ \E res \in {Stmt_qry(stmt[x], params, prov)} :
          IF ~res.open
          THEN /\ stmt' = [stmt EXCEPT ![x] = res.st]
               /\ last' = QryCall(x, params, res, res.out, res.err, NULL, NULL)
               /\ UNCHANGED rset
          ELSE \E r \in RsetPool_Get :
                 IF prov = "openFail"
                 THEN /\ rset' = [rset EXCEPT ![r] = RsetClosed]
                      /\ stmt' = [stmt EXCEPT ![x] = res.st]
                      /\ last' = QryCall(x, params, res, "err", ErrOci, r, NULL)
                 ELSE /\ rset' = [rset EXCEPT ![r] = RsetOpen(x)]
                      /\ stmt' = [stmt EXCEPT ![x] = [res.st EXCEPT !.openRsets = @ \cup {r}]]
                      /\ last' = QryCall(x, params, res, "rset", NIL, r, r)
    /\ UNCHANGED <<stmtPool, stmtNew>>
    /\ stmtFrame

\* ------------------------------------------------------------ specification
SrvInit ==
    /\ envOpen = TRUE
    /\ isPkgEnv = FALSE
    /\ envOpenSrvs = {}
    /\ srv = [s \in Srvs |-> [env |-> NULL, ocisrv |-> NULL, cfg |-> ZeroCfg,
                              openSess |-> {}]]
    /\ srvPool = [s \in Srvs |-> 0]
    /\ srvNew = 0
    /\ nextHandle = 0
    /\ detachCalls = [h \in Handles |-> 0]
    /\ ses = [e \in Sess |-> SesClosed]
    /\ sesPool = {}
    /\ sesNew = 0
    /\ th = [t \in Threads |-> Idle]
    /\ closedRefs = {}

\* no statement is prepared
StmtNone ==
    /\ stmt = [x \in Stmts |-> StmtZero]
    /\ stmtPool = [x \in Stmts |-> 0]
    /\ stmtNew = 0
    /\ rset = [r \in Rsets |-> RsetNew]
    /\ last = Call("none", NULL, <<>>, "nil", NIL)

SrvStep(t) ==
    \/ \E s \in {NULL} \cup Srvs : Srv_Close(t, s)
    \/ Srv_closeWithRemove(t)
    \/ Srv_close_checkHandle(t)
    \/ Srv_close_checkEnv(t)
    \/ Srv_close_closeAll(t)
    \/ Srv_close_detach(t)
    \/ Srv_close_detachErr(t)
    \/ Srv_close_deferCfg(t)
    \/ Srv_close_deferClear(t)
    \/ Srv_close_deferNil(t)
    \/ Srv_close_deferPut(t)
    \/ Env_OpenSrv(t)
    \/ Env_Close(t)
    \/ Env_Close_next(t)
    \/ \E s \in {NULL} \cup Srvs, cfg \in {ZeroCfg, UserCfg} : Srv_OpenSes(t, s, cfg)
    \/ Srv_OpenSes_provider(t)
    \/ Srv_OpenSes_register(t)
    \/ Return(t)

vars == <<serial, srvVars, stmtVars>>

SrvNext == \E t \in Threads : SrvStep(t)

\* callers that serialise their calls
Init == SrvInit /\ StmtNone /\ serial = TRUE
Spec == Init /\ [][SrvNext]_vars

\* callers that call concurrently
InitConc == SrvInit /\ StmtNone /\ serial = FALSE
SpecConc == InitConc /\ [][SrvNext]_vars

\* ---------------------------------------------------- statement specification
\* one server is open, with one session open on it
StmtInitAs(ser, sesCfg, txs) ==
    /\ serial = ser
    /\ envOpen = TRUE
    /\ isPkgEnv \in BOOLEAN
    /\ envOpenSrvs = {1}
    /\ srv = [s \in Srvs |-> IF s = 1
                             THEN [env |-> ENV, ocisrv |-> 1, cfg |-> UserCfg, openSess |-> {1}]
                             ELSE [env |-> NULL, ocisrv |-> NULL, cfg |-> ZeroCfg, openSess |-> {}]]
    /\ srvPool = [s \in Srvs |-> 0]
    /\ srvNew = 1
    /\ nextHandle = 1
    /\ detachCalls = [h \in Handles |-> 0]
    /\ ses = [e \in Sess |-> IF e = 1
                             THEN [srv |-> 1, ocises |-> 1, cfg |-> sesCfg,
                                   openStmts |-> {}, openTxs |-> txs]
                             ELSE SesClosed]
    /\ sesPool = {}
    /\ sesNew = 1
    /\ th = [t \in Threads |-> Idle]
    /\ closedRefs = {}
    /\ StmtNone

\* the same, used by a caller that makes one call at a time
StmtInitWith(sesCfg, txs) == StmtInitAs(TRUE, sesCfg, txs)

StmtInit == StmtInitWith(UserCfg, 0)

StmtNext ==
    \/ \E e \in Sess, kind \in StmtKinds, returning \in BOOLEAN :
          (returning => kind = "Insert") /\ Ses_Prep(e, kind, returning)
    \/ \E x \in {NULL} \cup Stmts : Stmt_Close(x)
    \/ \E x \in {NULL} \cup Stmts : Stmt_IsOpen(x)
    \/ \E e \in Sess : Ses_Close(e)
    \/ \E x \in Stmts, params \in ParamLists :
          \E prov \in ProviderFor(x, params) : Stmt_Exe(x, params, prov)
    \/ Stmt_Return

SpecStmt == StmtInit /\ [][StmtNext]_vars

\* ------------------------------------------------ configuration specification
MaxTxs == 1        \* open transactions of the session

\* the configurations a caller can set at a level: none, or one of two
Cfgs == {ZeroCfg, UserCfg, ManualCfg}

\* the parameter lists of the calls of this specification
CfgParamLists == {ps \in ParamLists : Len(ps) <= 1 /\ Bindable(ps)}

\* Stmt.SetCfg
Stmt_SetCfg(x, cfg) ==
    /\ last.op = "none"
    /\ x \in 1..stmtNew
    /\ stmt' = [stmt EXCEPT ![x].cfg = cfg]
    /\ last' = Call("SetCfg", x, <<>>, "nil", NIL)
    /\ UNCHANGED <<stmtPool, stmtNew, rset>>
    /\ stmtFrame

\* Srv.SetCfg
Srv_SetCfg(s, cfg) ==
    /\ last.op = "none"
    /\ s \in 1..srvNew
    /\ srv' = [srv EXCEPT ![s].cfg = cfg]
    /\ last' = Call("SrvSetCfg", s, <<>>, "nil", NIL)
    /\ UNCHANGED <<stmt, stmtPool, stmtNew, rset, serial, envOpen, isPkgEnv, envOpenSrvs, srvPool,
                   srvNew, nextHandle, detachCalls, ses, sesPool, sesNew, th, closedRefs>>

\* a call of Stmt.Cfg on a statement with a session: out is what it returns
Stmt_GetCfg(x) ==
    /\ last.op = "none"
    /\ x \in 1..stmtNew
    /\ stmt[x].ses # NULL
    /\ last' = Call("Cfg", x, <<>>, Stmt_Cfg(stmt[x]), NIL)
    /\ UNCHANGED <<stmt, stmtPool, stmtNew, rset>>
    /\ stmtFrame

\* a call of Srv.Cfg on a server with an environment: out is the StmtCfg of
\* what it returns
Srv_GetCfg(s) ==
    /\ last.op = "none"
    /\ s \in 1..srvNew
    /\ srv[s].env # NULL
    /\ last' = Call("SrvCfg", s, <<>>, Srv_Cfg(s), NIL)
    /\ UNCHANGED <<stmt, stmtPool, stmtNew, rset>>
    /\ stmtFrame

\* the session's configuration and its open transactions are as its caller left
\* them
CfgInit == \E sesCfg \in Cfgs, txs \in 0..MaxTxs : StmtInitWith(sesCfg, txs)

CfgNext ==
    \/ \E e \in Sess, kind \in StmtKinds : Ses_Prep(e, kind, FALSE)
    \/ \E x \in Stmts, cfg \in Cfgs : Stmt_SetCfg(x, cfg)
    \/ \E s \in Srvs, cfg \in Cfgs : Srv_SetCfg(s, cfg)
    \/ \E x \in Stmts : Stmt_GetCfg(x)
    \/ \E s \in Srvs : Srv_GetCfg(s)
    \/ \E x \in Stmts, params \in CfgParamLists :
          \E prov \in ProviderFor(x, params) : Stmt_Exe(x, params, prov)
    \/ Stmt_Return

SpecCfg == CfgInit /\ [][CfgNext]_vars

\* ------------------------------------------------------------------ DrvStmt
\* the context of a call: live, cancelled, or past its deadline
Ctxs == {"live", "canceled", "deadline"}

\* ctx.Err()
CtxErr(ctx) == IF ctx = "live" THEN NIL ELSE [kind |-> "ctx", ctx |-> ctx]

\* the context late of a later moment of a call whose context was ctx: a
\* context that is done stays as it is
LaterCtx(ctx, late) == ctx # "live" => late = ctx

\* params[n] = v: every parameter handed to the statement is the
\* driver.NamedValue itself, a type the type switch of Stmt.bind has no case for
NamedValues(values) ==
    [n \in 1..Len(values) |-> [k |-> "other", null |-> FALSE, n |-> 0, fail |-> FALSE]]

\* ds.checkIsOpen()
DrvStmt_checkIsOpen(x) == StmtCheckClosed(x)

\* an ExecContext that looks at the context only after the statement has run
DrvStmt_ExecContext_lateCheck(x, values, ctx, late, prov) ==
    /\ last.op = "none"
    /\ x \in 1..stmtNew
    /\ IF DrvStmt_checkIsOpen(x) # NIL
       THEN /\ last' = [Call("ExecContext", x, values, "err", DrvStmt_checkIsOpen(x))
                        EXCEPT !.ctx = ctx]
            /\ UNCHANGED stmt
       ELSE \E res \in {Stmt_exe(stmt[x], NamedValues(values), prov)} :
              /\ stmt' = [stmt EXCEPT ![x] = res.st]
              /\ last' = [Call("ExecContext", x, values,
                               IF res.err = NIL /\ late # "live" THEN "err" ELSE res.out,
                               IF res.err = NIL THEN CtxErr(late) ELSE res.err)
                          EXCEPT !.wasOpen = TRUE, !.ctx = ctx,
                                 !.iterations = res.iterations, !.mode = res.mode,
                                 !.executed = res.executed, !.rows = res.rows,
                                 !.invoked = res.invoked, !.bound = res.reached,
                                 !.r = res.r, !.ptrs = res.ptrs, !.read = res.read]
    /\ UNCHANGED <<stmtPool, stmtNew, rset>>
    /\ stmtFrame

\* DrvStmt.ExecContext: checkIsOpen, the parameters, ctx.Err(), then stmt.exeC,
\* which runs the statement with the parameters while the context stays live;
\* late is the context when the call returns: a success returns ctx.Err() again
DrvStmt_ExecContext(x, values, ctx, late, prov) ==
    /\ last.op = "none"
    /\ x \in 1..stmtNew
    /\ IF DrvStmt_checkIsOpen(x) # NIL
       THEN /\ last' = [Call("ExecContext", x, values, "err", DrvStmt_checkIsOpen(x))
                        EXCEPT !.ctx = ctx]
            /\ UNCHANGED stmt
       ELSE IF CtxErr(ctx) # NIL
       THEN /\ last' = [Call("ExecContext", x, values, "err", CtxErr(ctx))
                        EXCEPT !.wasOpen = TRUE, !.ctx = ctx]
            /\ UNCHANGED stmt
       ELSE \E res \in {Stmt_exe(stmt[x], NamedValues(values), prov)} :
              /\ stmt' = [stmt EXCEPT ![x] = res.st]
              /\ last' = [Call("ExecContext", x, values,
                               IF res.err = NIL /\ late # "live" THEN "err" ELSE res.out,
                               IF res.err = NIL THEN CtxErr(late) ELSE res.err)
                          EXCEPT !.wasOpen = TRUE, !.ctx = ctx,
                                 !.iterations = res.iterations, !.mode = res.mode,
                                 !.executed = res.executed, !.rows = res.rows,
                                 !.invoked = res.invoked, !.bound = res.reached,
                                 !.r = res.r, !.ptrs = res.ptrs, !.read = res.read]
    /\ UNCHANGED <<stmtPool, stmtNew, rset>>
    /\ stmtFrame

\* DrvStmt.QueryContext: checkIsOpen, the parameters, ctx.Err(), then stmt.qryC,
\* which runs the query with the parameters while the context stays live; late
\* is the context when the call returns: a success returns the rows and
\* ctx.Err() again
DrvStmt_QueryContext(x, values, ctx, late, prov) ==
    /\ last.op = "none"
    /\ x \in 1..stmtNew
    /\ IF DrvStmt_checkIsOpen(x) # NIL
       THEN /\ last' = [Call("QueryContext", x, values, "err", DrvStmt_checkIsOpen(x))
                        EXCEPT !.ctx = ctx]
            /\ UNCHANGED <<stmt, rset>>
       ELSE IF CtxErr(ctx) # NIL
       THEN /\ last' = [Call("QueryContext", x, values, "err", CtxErr(ctx))
                        EXCEPT !.wasOpen = TRUE, !.ctx = ctx]
            /\ UNCHANGED <<stmt, rset>>
       ELSE \E res \in {Stmt_qry(stmt[x], NamedValues(values), prov)} :
              IF ~res.open
              THEN /\ stmt' = [stmt EXCEPT ![x] = res.st]
                   /\ last' = [QryCall(x, values, res, res.out, res.err, NULL, NULL)
                               EXCEPT !.op = "QueryContext", !.ctx = ctx]
                   /\ UNCHANGED rset
              ELSE \E r \in RsetPool_Get :
                     IF prov = "openFail"
                     THEN /\ rset' = [rset EXCEPT ![r] = RsetClosed]
                          /\ stmt' = [stmt EXCEPT ![x] = res.st]
                          /\ last' = [QryCall(x, values, res, "err", ErrOci, r, NULL)
                                      EXCEPT !.op = "QueryContext", !.ctx = ctx]
                     ELSE /\ rset' = [rset EXCEPT ![r] = RsetOpen(x)]
                          /\ stmt' = [stmt EXCEPT ![x] =
                                        [res.st EXCEPT !.openRsets = @ \cup {r}]]
                          /\ last' = [QryCall(x, values, res,
                                              IF late # "live" THEN "err" ELSE "rset",
                                              CtxErr(late), r, r)
                                      EXCEPT !.op = "QueryContext", !.ctx = ctx]
    /\ UNCHANGED <<stmtPool, stmtNew>>
    /\ stmtFrame

\* --------------------------------------------------- operations specification
\* the parameter lists of the calls of this specification: values, output
\* pointers and NULLs of a nullable wrapper
OpsParamLists ==
    {ps \in ParamLists :
        \A i \in 1..Len(ps) :
            (ps[i].k \in {"int64", "*int64"} \/ (ps[i].k = "Int64" /\ ps[i].null))
            /\ ~ps[i].fail}

\* the one caller of this specification
OpsCaller == "t1"

\* no call on a server is under way
AllIdle == \A t \in Threads : th[t].pc = "idle"

\* a call on a statement or a session, made when no other call is under way
OpsStmtStep ==
    \/ \E e \in Sess, kind \in {"Select", "Other"} : Ses_Prep(e, kind, FALSE)
    \/ \E e \in Sess : Ses_Close(e)
    \/ \E x \in Stmts, params \in OpsParamLists :
          \E prov \in ProviderFor(x, params) : Stmt_Exe(x, params, prov)
    \/ \E x \in Stmts, params \in OpsParamLists :
          \E prov \in QryProviderFor(x, params) : Stmt_Qry(x, params, prov)

\* a step of a call on the server: Close, OpenSes or Version
OpsSrvStep(t) ==
    \/ \E s \in {NULL} \cup Srvs : Srv_Close(t, s)
    \/ Srv_closeWithRemove(t)
    \/ Srv_close_checkHandle(t)
    \/ Srv_close_checkEnv(t)
    \/ Srv_close_closeAll(t)
    \/ Srv_close_detach(t)
    \/ Srv_close_detachErr(t)
    \/ Srv_close_deferCfg(t)
    \/ Srv_close_deferClear(t)
    \/ Srv_close_deferNil(t)
    \/ Srv_close_deferPut(t)
    \/ \E s \in {NULL} \cup Srvs, cfg \in {ZeroCfg, UserCfg} : Srv_OpenSes(t, s, cfg)
    \/ Srv_OpenSes_provider(t)
    \/ Srv_OpenSes_register(t)
    \/ \E s \in {NULL} \cup Srvs : Srv_Version(t, s)
    \/ Srv_Version_provider(t)
    \/ Return(t)

OpsNext ==
    \/ last.op = "none" /\ OpsSrvStep(OpsCaller)
    \/ AllIdle /\ OpsStmtStep
    \/ Stmt_Return

\* one server is open, with one session open on it, in an environment of the
\* caller's
OpsInit == StmtInit /\ isPkgEnv = FALSE

\* a server, its sessions and their statements, used by a caller that makes one
\* call at a time
SpecOps == OpsInit /\ [][OpsNext]_vars

\* ------------------------------------------------------ context specification
\* the values of the calls through DrvStmt: lists of at most one value
CtxValueLists == {ps \in OpsParamLists : Len(ps) <= 1}

\* what the provider can do during a call through DrvStmt
CtxProviderFor(x, values) ==
    IF last.op # "none" \/ x > stmtNew THEN {}
    ELSE IF Stmt_qry(stmt[x], NamedValues(values), "ok").reached THEN QryProvider ELSE {"ok"}

CtxNext ==
    \/ \E e \in Sess, kind \in {"Select", "Other"} : Ses_Prep(e, kind, FALSE)
    \/ \E e \in Sess : Ses_Close(e)
    \/ \E x \in Stmts, params \in OpsParamLists :
          \E prov \in ProviderFor(x, params) : Stmt_Exe(x, params, prov)
    \/ \E x \in Stmts, params \in OpsParamLists :
          \E prov \in QryProviderFor(x, params) : Stmt_Qry(x, params, prov)
    \/ \E x \in Stmts, values \in CtxValueLists, ctx \in Ctxs, late \in Ctxs :
          /\ LaterCtx(ctx, late)
          /\ \E prov \in CtxProviderFor(x, values) :
                DrvStmt_ExecContext(x, values, ctx, late, prov)
    \/ \E x \in Stmts, values \in CtxValueLists, ctx \in Ctxs, late \in Ctxs :
          /\ LaterCtx(ctx, late)
          /\ \E prov \in CtxProviderFor(x, values) :
                DrvStmt_QueryContext(x, values, ctx, late, prov)
    \/ Stmt_Return

\* a session's statements, called directly and through DrvStmt
SpecCtx == OpsInit /\ [][CtxNext]_vars

\* ------------------------------------------------- teardown-fault specification
\* Srv.close when openSess.closeAll(errs) panics after it closed the sessions of
\* done: the rest of the body is skipped and the deferred function recovers
Srv_close_closeAll_fault(t) ==
    /\ th[t].pc = "cl_closeAll"
    /\ LET S == srv[th[t].srv].openSess
       IN /\ S # {}
          /\ \A x \in OpenStmtsOf(S) : ~stmt[x].locked
          /\ \E done \in (SUBSET S) \ {S} :
                /\ SesList_closeAll(done)
                /\ th' = [th EXCEPT ![t].hadSess = S,
                                    ![t].faulted = TRUE,
                                    ![t].pc = "df_cfg"]
    /\ UNCHANGED <<serial, stmtNew, last, closedRefs, envOpen, isPkgEnv, envOpenSrvs, srv,
                   srvPool, srvNew, nextHandle, detachCalls, sesNew>>

\* the statements of S that hold a bind descriptor
WithBinds(S) ==
    {x \in S : \E i \in 0..(stmt[x].bnds.len - 1) : BndAt(stmt[x], i) # NoBnd}

\* Stmt.close of the open statements of S when bind.close() panics in the close
\* of x: the rest of the body of that close, openRsets.closeAll(errs) included,
\* is skipped; its deferred function recovers, releases the native statement,
\* resets the fields, clears openRsets and pools the Stmt
Stmt_close_fault(S, x) ==
    /\ stmt' = [y \in Stmts |-> IF y \in S /\ stmt[y].ocistmt # NULL THEN StmtZero ELSE stmt[y]]
    /\ stmtPool' = [y \in Stmts |-> IF y \in S /\ stmt[y].ocistmt # NULL
                                   THEN stmtPool[y] + 1 ELSE stmtPool[y]]
    /\ rset' = RsetList_closeAll(
                  UNION {stmt[y].openRsets : y \in {z \in S \ {x} : stmt[z].ocistmt # NULL}})

\* Ses.Close when the close of statement x panics in bind.close(): the session
\* goes on and returns the recovered fault
Ses_Close_stmtFault(e, x) ==
    /\ last.op = "none"
    /\ ses[e].ocises # NULL
    /\ \A y \in ses[e].openStmts : ~stmt[y].locked
    /\ x \in WithBinds(ses[e].openStmts)
    /\ Stmt_close_fault(ses[e].openStmts, x)
    /\ ses' = [ses EXCEPT ![e] = SesClosed]
    /\ sesPool' = sesPool \cup {e}
    /\ srv' = [srv EXCEPT ![ses[e].srv].openSess = @ \ {e}]
    /\ last' = [Call("SesClose", x, <<>>, "err", ErrFault)
                EXCEPT !.wasOpen = TRUE, !.got = stmt[x].openRsets]
    /\ UNCHANGED <<serial, envOpen, isPkgEnv, envOpenSrvs, srvPool, srvNew, nextHandle,
                   detachCalls, sesNew, th, closedRefs, stmtNew>>

\* a step of Srv.Close, with or without a fault in the close of the sessions
FaultSrvStep(t) ==
    \/ \E s \in Srvs : Srv_Close(t, s)
    \/ Srv_closeWithRemove(t)
    \/ Srv_close_checkHandle(t)
    \/ Srv_close_checkEnv(t)
    \/ Srv_close_closeAll(t)
    \/ Srv_close_closeAll_fault(t)
    \/ Srv_close_detach(t)
    \/ Srv_close_detachErr(t)
    \/ Srv_close_deferCfg(t)
    \/ Srv_close_deferClear(t)
    \/ Srv_close_deferNil(t)
    \/ Srv_close_deferPut(t)
    \/ Return(t)

\* a call on a session or a statement, with or without a fault in the close of
\* a bind descriptor
FaultStmtStep ==
    \/ \E e \in Sess, kind \in {"Select", "Other"} : Ses_Prep(e, kind, FALSE)
    \/ \E e \in Sess : Ses_Close(e)
    \/ \E e \in Sess, x \in Stmts : Ses_Close_stmtFault(e, x)
    \/ \E x \in Stmts, params \in CtxValueLists :
          \E prov \in QryProviderFor(x, params) : Stmt_Qry(x, params, prov)

FaultNext ==
    \/ last.op = "none" /\ FaultSrvStep(OpsCaller)
    \/ AllIdle /\ FaultStmtStep
    \/ Stmt_Return

\* a server, its session and the session's statements, torn down by a caller
\* that makes one call at a time, where a step of a teardown may panic
SpecFault == OpsInit /\ [][FaultNext]_vars

\* ------------------------------------------------------ lock specification
\* Calls on one session's statements, step by step, with the statement's
\* sync.RWMutex: th[t].x is the statement of the call of t, th[t].holds the lock
\* on it that t holds ("r", "w" or "none").
\* a read lock on statement x is held
ReadHeld(x) == stmt[x].rleak \/ \E u \in Threads : th[u].x = x /\ th[u].holds = "r"

\* the write lock on statement x is held
WriteHeld(x) == stmt[x].locked \/ \E u \in Threads : th[u].x = x /\ th[u].holds = "w"

\* Stmt.exe and Stmt.qry without parameters up to the execute: checkClosed under
\* the read lock, then bind (which returns at once) and setPrefetchSize
Lock_exe(t, x, op) ==
    /\ CanStart(t)
    /\ last.op = "none"
    /\ x \in 1..stmtNew
    /\ ~WriteHeld(x)
    /\ \E prov \in {"ok", "prefetchFail"} :
         IF StmtCheckClosed(x) # NIL
         THEN /\ th' = [th EXCEPT ![t] = [Idle EXCEPT !.pc = "ret", !.op = op, !.x = x,
                                                      !.ret = StmtCheckClosed(x)]]
              /\ UNCHANGED stmt
         ELSE /\ th' = [th EXCEPT ![t] =
                          [Idle EXCEPT !.pc = IF prov = "ok" THEN "xe_rlock" ELSE "ret",
                                       !.op = op, !.x = x, !.wasOpen = TRUE,
                                       !.ret = IF prov = "ok" THEN NIL ELSE ErrOci]]
              /\ stmt' = [stmt EXCEPT ![x] = Stmt_bind(stmt[x], <<>>).st]
    /\ UNCHANGED <<serial, envOpen, isPkgEnv, envOpenSrvs, srv, srvPool, srvNew, nextHandle,
                   detachCalls, ses, sesPool, sesNew, closedRefs, stmtPool, stmtNew, rset,
                   last>>

\* exe, qry: stmt.RLock(), then the arguments of OCIStmtExecute are read and the
\* provider is called; a nil stmt.ses is a fault that the deferred function
\* recovers, with the read lock held
Lock_exe_execute(t) ==
    /\ th[t].pc = "xe_rlock"
    /\ ~WriteHeld(th[t].x)
    /\ IF stmt[th[t].x].ses = NULL
       THEN /\ th' = [th EXCEPT ![t].pc = "ret", ![t].ret = ErrFault, ![t].faulted = TRUE]
            /\ stmt' = [stmt EXCEPT ![th[t].x].rleak = TRUE]
       ELSE /\ th' = [th EXCEPT ![t].pc = "xe_call", ![t].holds = "r"]
            /\ UNCHANGED stmt
    /\ UNCHANGED <<serial, envOpen, isPkgEnv, envOpenSrvs, srv, srvPool, srvNew, nextHandle,
                   detachCalls, ses, sesPool, sesNew, closedRefs, stmtPool, stmtNew, rset,
                   last>>

\* exe, qry: OCIStmtExecute returns and stmt.RUnlock(); exe returns, qry goes on
\* to the result set unless r == OCI_ERROR
Lock_exe_executed(t) ==
    /\ th[t].pc = "xe_call"
    /\ \E r \in {"OCI_SUCCESS", "OCI_ERROR"} :
         th' = [th EXCEPT ![t].holds = "none",
                          ![t].pc = IF r = "OCI_SUCCESS" /\ th[t].op = "Qry"
                                    THEN "xq_open" ELSE "ret",
                          ![t].ret = IF r = "OCI_ERROR" THEN ErrOci ELSE NIL]
    /\ UNCHANGED <<serial, envOpen, isPkgEnv, envOpenSrvs, srv, srvPool, srvNew, nextHandle,
                   detachCalls, ses, sesPool, sesNew, closedRefs, stmtVars>>

\* qry: an Rset of the pool is opened on the statement and, under the read lock,
\* added to stmt.openRsets
Lock_qry_open(t) ==
    /\ th[t].pc = "xq_open"
    /\ ~WriteHeld(th[t].x)
    /\ \E r \in RsetPool_Get :
         /\ rset' = [rset EXCEPT ![r] = RsetOpen(th[t].x)]
         /\ stmt' = [stmt EXCEPT ![th[t].x].openRsets = @ \cup {r}]
    /\ th' = [th EXCEPT ![t].pc = "ret", ![t].ret = NIL]
    /\ UNCHANGED <<serial, envOpen, isPkgEnv, envOpenSrvs, srv, srvPool, srvNew, nextHandle,
                   detachCalls, ses, sesPool, sesNew, closedRefs, stmtPool, stmtNew, last>>

\* Stmt.SetCfg: stmt.cfg.Store(cfg), with no lock
Lock_SetCfg(t, x, cfg) ==
    /\ CanStart(t)
    /\ last.op = "none"
    /\ x \in 1..stmtNew
    /\ stmt' = [stmt EXCEPT ![x].cfg = cfg]
    /\ th' = [th EXCEPT ![t] = [Idle EXCEPT !.pc = "ret", !.op = "SetCfg", !.x = x,
                                            !.arg = cfg]]
    /\ UNCHANGED <<serial, envOpen, isPkgEnv, envOpenSrvs, srv, srvPool, srvNew, nextHandle,
                   detachCalls, ses, sesPool, sesNew, closedRefs, stmtPool, stmtNew, rset,
                   last>>

\* a Cfg that takes the statement's read lock for the load
Lock_Cfg_load_locked(t, x) ==
    /\ CanStart(t)
    /\ last.op = "none"
    /\ x \in 1..stmtNew
    /\ ~WriteHeld(x)
    /\ th' = [th EXCEPT ![t] = [Idle EXCEPT !.pc = "cf_env", !.op = "Cfg", !.x = x,
                                            !.arg = stmt[x].cfg]]
    /\ UNCHANGED <<serial, envOpen, isPkgEnv, envOpenSrvs, srv, srvPool, srvNew, nextHandle,
                   detachCalls, ses, sesPool, sesNew, closedRefs, stmtVars>>

\* Stmt.Cfg: c := stmt.cfg.Load(), with no lock
Lock_Cfg_load(t, x) ==
    /\ CanStart(t)
    /\ last.op = "none"
    /\ x \in 1..stmtNew
    /\ th' = [th EXCEPT ![t] = [Idle EXCEPT !.pc = "cf_env", !.op = "Cfg", !.x = x,
                                            !.arg = stmt[x].cfg]]
    /\ UNCHANGED <<serial, envOpen, isPkgEnv, envOpenSrvs, srv, srvPool, srvNew, nextHandle,
                   detachCalls, ses, sesPool, sesNew, closedRefs, stmtVars>>

\* Stmt.Cfg: env := stmt.ses.srv.env, read with no lock, and the resolution of
\* the value loaded; a nil stmt.ses is a fault that nothing recovers
Lock_Cfg_resolve(t) ==
    /\ th[t].pc = "cf_env"
    /\ th' = [th EXCEPT ![t] =
                IF stmt[th[t].x].ses = NULL
                THEN [th[t] EXCEPT !.pc = "crashed", !.faulted = TRUE]
                ELSE [th[t] EXCEPT !.pc = "ret",
                                   !.arg = Stmt_Cfg([stmt[th[t].x] EXCEPT !.cfg = th[t].arg])]]
    /\ UNCHANGED <<serial, envOpen, isPkgEnv, envOpenSrvs, srv, srvPool, srvNew, nextHandle,
                   detachCalls, ses, sesPool, sesNew, closedRefs, stmtVars>>

\* Ses.Close: the session's statements are closed one by one
Lock_SesClose(t, e) ==
    /\ CanStart(t)
    /\ last.op = "none"
    /\ ses[e].ocises # NULL
    /\ th' = [th EXCEPT ![t] = [Idle EXCEPT !.pc = "sc_next", !.op = "SesClose",
                                            !.rses = e, !.todo = ses[e].openStmts]]
    /\ UNCHANGED <<serial, envOpen, isPkgEnv, envOpenSrvs, srv, srvPool, srvNew, nextHandle,
                   detachCalls, ses, sesPool, sesNew, closedRefs, stmtVars>>

\* Ses.Close: openStmts.closeAll calls stmt.close() on the next statement, whose
\* checkClosed reads the handle under the read lock; after the last one the
\* session is ended, removed from its server and pooled
Lock_SesClose_next(t) ==
    /\ th[t].pc = "sc_next"
    /\ IF th[t].todo # {}
       THEN /\ \E x \in th[t].todo :
                 /\ ~WriteHeld(x)
                 /\ th' = [th EXCEPT ![t] =
                             IF StmtCheckClosed(x) # NIL
                             THEN [th[t] EXCEPT !.todo = @ \ {x},
                                                !.errs = Append(@, StmtCheckClosed(x))]
                             ELSE [th[t] EXCEPT !.todo = @ \ {x}, !.x = x,
                                                !.pc = "sc_body"]]
            /\ UNCHANGED <<ses, sesPool, srv>>
       ELSE /\ ses' = [ses EXCEPT ![th[t].rses] = SesClosed]
            /\ sesPool' = sesPool \cup {th[t].rses}
            /\ srv' = [srv EXCEPT ![ses[th[t].rses].srv].openSess = @ \ {th[t].rses}]
            /\ th' = [th EXCEPT ![t].pc = "ret", ![t].ret = NewMultiErrL(th[t].errs)]
    /\ UNCHANGED <<serial, envOpen, isPkgEnv, envOpenSrvs, srvPool, srvNew, nextHandle,
                   detachCalls, sesNew, closedRefs, stmtVars>>

\* Stmt.close, body: the binds of stmt.bnds are closed, then
\* openRsets.closeAll(errs)
Lock_close_body(t) ==
    /\ th[t].pc = "sc_body"
    /\ ~WriteHeld(th[t].x)
    /\ rset' = RsetList_closeAll(stmt[th[t].x].openRsets)
    /\ th' = [th EXCEPT ![t].pc = "sc_rlock", ![t].hadRsets = stmt[th[t].x].openRsets]
    /\ UNCHANGED <<serial, envOpen, isPkgEnv, envOpenSrvs, srv, srvPool, srvNew, nextHandle,
                   detachCalls, ses, sesPool, sesNew, closedRefs, stmt, stmtPool, stmtNew,
                   last>>

\* Stmt.close, deferred: stmt.RLock(), then the arguments of OCIStmtRelease are
\* read and the provider is called; a nil stmt.ses is a fault in the deferred
\* function, with the read lock held
Lock_close_release(t) ==
    /\ th[t].pc = "sc_rlock"
    /\ ~WriteHeld(th[t].x)
    /\ th' = [th EXCEPT ![t] =
                IF stmt[th[t].x].ses = NULL
                THEN [th[t] EXCEPT !.pc = "crashed", !.faulted = TRUE, !.holds = "r"]
                ELSE [th[t] EXCEPT !.pc = "sc_release", !.holds = "r"]]
    /\ UNCHANGED <<serial, envOpen, isPkgEnv, envOpenSrvs, srv, srvPool, srvNew, nextHandle,
                   detachCalls, ses, sesPool, sesNew, closedRefs, stmtVars>>

\* Stmt.close, deferred: OCIStmtRelease returns, stmt.RUnlock(), the error of
\* the release is pushed, stmt.SetCfg(StmtCfg{})
Lock_close_released(t) ==
    /\ th[t].pc = "sc_release"
    /\ \E r \in {"OCI_SUCCESS", "OCI_ERROR"} :
         th' = [th EXCEPT ![t].holds = "none", ![t].pc = "sc_lock",
                          ![t].detachFailed = (r = "OCI_ERROR"),
                          ![t].errs = IF r = "OCI_ERROR" THEN Append(@, ErrOci) ELSE @]
    /\ stmt' = [stmt EXCEPT ![th[t].x].cfg = ZeroCfg]
    /\ UNCHANGED <<serial, envOpen, isPkgEnv, envOpenSrvs, srv, srvPool, srvNew, nextHandle,
                   detachCalls, ses, sesPool, sesNew, closedRefs, stmtPool, stmtNew, rset,
                   last>>

\* a close that takes the write lock without waiting for the readers
Lock_close_lock_noWait(t) ==
    /\ th[t].pc = "sc_lock"
    /\ th' = [th EXCEPT ![t].pc = "sc_reset", ![t].holds = "w"]
    /\ UNCHANGED <<serial, envOpen, isPkgEnv, envOpenSrvs, srv, srvPool, srvNew, nextHandle,
                   detachCalls, ses, sesPool, sesNew, closedRefs, stmtVars>>

\* Stmt.close, deferred: stmt.Lock(), which waits until no lock is held
Lock_close_lock(t) ==
    /\ th[t].pc = "sc_lock"
    /\ ~ReadHeld(th[t].x)
    /\ ~WriteHeld(th[t].x)
    /\ th' = [th EXCEPT ![t].pc = "sc_reset", ![t].holds = "w"]
    /\ UNCHANGED <<serial, envOpen, isPkgEnv, envOpenSrvs, srv, srvPool, srvNew, nextHandle,
                   detachCalls, ses, sesPool, sesNew, closedRefs, stmtVars>>

\* Stmt.close, deferred, under the write lock: the fields are reset,
\* openRsets.clear(), _drv.stmtPool.Put(stmt)
Lock_close_reset(t) ==
    /\ th[t].pc = "sc_reset"
    /\ stmt' = [stmt EXCEPT ![th[t].x] = StmtZero]
    /\ stmtPool' = [stmtPool EXCEPT ![th[t].x] = @ + 1]
    /\ th' = [th EXCEPT ![t].pc = "sc_unlock"]
    /\ UNCHANGED <<serial, envOpen, isPkgEnv, envOpenSrvs, srv, srvPool, srvNew, nextHandle,
                   detachCalls, ses, sesPool, sesNew, closedRefs, stmtNew, rset, last>>

\* Stmt.close, deferred: stmt.Unlock(); the close returns to openStmts.closeAll
Lock_close_unlock(t) ==
    /\ th[t].pc = "sc_unlock"
    /\ th' = [th EXCEPT ![t].holds = "none", ![t].pc = "sc_next"]
    /\ UNCHANGED <<serial, envOpen, isPkgEnv, envOpenSrvs, srv, srvPool, srvNew, nextHandle,
                   detachCalls, ses, sesPool, sesNew, closedRefs, stmtVars>>

\* a step of a call on a statement or of a close of the session
LockStep(t) ==
    \/ \E x \in Stmts, op \in {"Exe", "Qry"} : Lock_exe(t, x, op)
    \/ Lock_exe_execute(t)
    \/ Lock_exe_executed(t)
    \/ Lock_qry_open(t)
    \/ \E x \in Stmts, cfg \in {ZeroCfg, UserCfg} : Lock_SetCfg(t, x, cfg)
    \/ \E x \in Stmts : Lock_Cfg_load(t, x)
    \/ Lock_Cfg_resolve(t)
    \/ \E e \in Sess : Lock_SesClose(t, e)
    \/ Lock_SesClose_next(t)
    \/ Lock_close_body(t)
    \/ Lock_close_release(t)
    \/ Lock_close_released(t)
    \/ Lock_close_lock(t)
    \/ Lock_close_reset(t)
    \/ Lock_close_unlock(t)
    \/ Return(t)

LockNext ==
    \/ \E t \in Threads : LockStep(t)
    \/ AllIdle /\ \E e \in Sess, kind \in {"Select", "Other"} : Ses_Prep(e, kind, FALSE)
    \/ Stmt_Return

\* one server with one session, whose statements are used and closed by two
\* goroutines at the same time
SpecLock == StmtInitAs(FALSE, UserCfg, 0) /\ [][LockNext]_vars

\* a server, its sessions and their statements, opened, used and closed step by
\* step by a caller that makes one call at a time
TeardownNext ==
    \/ \E t \in Threads : SrvStep(t) \/ LockStep(t)
    \/ AllIdle /\ \E e \in Sess, kind \in {"Select", "Other"} : Ses_Prep(e, kind, FALSE)
    \/ Stmt_Return

SpecTeardown == StmtInitAs(TRUE, UserCfg, 0) /\ [][TeardownNext]_vars

\* ------------------------------------------------------------ properties
\* a public Srv.Close on a server that was open has returned to caller t
SrvCloseReturned(t) ==
    th[t].pc = "ret" /\ th[t].op = "Close" /\ th[t].wasOpen

\* the failures a close collected, in the order of its steps
Collected(rec) ==
    ChildErrs(rec.childFailed)
      \o (IF rec.detachFailed THEN <<ErrOci>> ELSE <<>>)
      \o (IF rec.faulted THEN <<ErrFault>> ELSE <<>>)

\* C1: once the public Stmt.Close has returned for a statement that was open,
\* Stmt.IsOpen() is false.
C1_StmtCloseMakesNotOpen ==
    (last.op = "Close" /\ last.wasOpen /\ last.out # "blocked")
        => Stmt_IsOpen_result(last.x) = "false"

\* C2: once Srv.Close has returned for a server that was open, whether or not a
\* step of the teardown failed, Srv.IsOpen() is false and Srv.NumSes() is 0.
C2_SrvClosedAfterClose ==
    \A t \in Threads :
        SrvCloseReturned(t) => ~SrvIsOpen(th[t].srv) /\ SrvNumSes(th[t].srv) = 0

\* a Close of an open server with sessions has returned an error
C2_Witness ==
    \E t \in Threads :
        /\ SrvCloseReturned(t)
        /\ th[t].hadSess # {}
        /\ th[t].ret # NIL
        /\ ~SrvIsOpen(th[t].srv)

\* C3: a second Close on a node that a first Close has fully closed returns an
\* error of the AlreadyClosed class (not nil, not a crash): a Srv.Close on a
\* reference that is closed, and a Stmt.Close on a statement that is closed.
C3_SecondCloseAlreadyClosed ==
    /\ \A t \in Threads :
          (th[t].pc = "ret" /\ th[t].op = "Close" /\ th[t].srv \in closedRefs
              /\ ~th[t].wasOpen)
            => th[t].ret.kind = "closed"
    /\ (last.op = "Close" /\ last.x # NULL /\ ~last.wasOpen) => last.out = "err"

\* C4: after Srv.Close returns, every session that was in the server's open
\* sessions reports closed, also when the close of one of them failed, and each
\* such failure is in the error that Srv.Close returns.
C4_CloseClosesEverySession ==
    \A t \in Threads :
        SrvCloseReturned(t) =>
            /\ \A e \in th[t].hadSess : ses[e].ocises = NULL
            /\ \A e \in th[t].childFailed :
                  /\ th[t].ret # NIL
                  /\ \E i \in 1..Len(th[t].ret.errs) : th[t].ret.errs[i] = ErrChild(e)

\* a Close of a server with two sessions has returned: the close of one session
\* failed, the other one's did not, and both are closed
C4_Witness ==
    \E t \in Threads :
        /\ SrvCloseReturned(t)
        /\ Cardinality(th[t].hadSess) >= 2
        /\ th[t].childFailed # {}
        /\ th[t].childFailed # th[t].hadSess
        /\ \A e \in th[t].hadSess : ses[e].ocises = NULL

\* C5: once Srv.Close has returned for a *Srv reference, Srv.IsOpen() on that
\* reference is never true again, whatever servers are opened later.
C5_CloseIrreversible ==
    \A s \in closedRefs : ~SrvIsOpen(s)

C7_PooledAtMostOnce ==
    \A s \in Srvs : srvPool[s] <= 1

\* C8: whatever the interleaving of concurrent closes of one open Srv, the
\* detach is invoked once for each open and no close dereferences a parent that
\* is already cleared.
C8_DetachOnceNoFault ==
    /\ \A h \in Handles : detachCalls[h] <= 1
    /\ \A t \in Threads : ~th[t].faulted

\* C9: IsOpen() on a nil pointer returns false, for Srv and for Stmt.
C9_IsOpenOfNilIsFalse ==
    /\ ~SrvIsOpen(NULL)
    /\ (last.op = "IsOpen" /\ last.x = NULL) => last.out = "false"

\* the parameters of the last Exe are all NULL parameters that the provider
\* accepts, bound as the caller gave them
AllNullParams ==
    /\ last.op = "Exe" /\ last.wasOpen /\ last.out # "blocked"
    /\ Len(last.params) > 0
    /\ ~(isPkgEnv /\ stmt[last.x].stmtType = "Insert" /\ stmt[last.x].returning)
    /\ \A i \in 1..Len(last.params) : IsNullParam(last.params[i]) /\ ~last.params[i].fail

\* C10: a NULL parameter (a nullable wrapper with IsNull set, a raw nil) at index
\* i is bound, whatever the statement's descriptor list was before, without a
\* call of a value binder and without a fault, and the statement's descriptor at
\* i is then a NULL descriptor with the wire tag of the parameter's kind.
C10_NullBoundAtOwnIndex ==
    AllNullParams =>
        /\ last.err # ErrFault
        /\ last.invoked = {}
        /\ \A i \in 1..Len(last.params) :
              BndAt(stmt[last.x], i - 1) = NilBnd(NullTag(last.params[i].k))


\* an Exe on an open statement has returned
ExeReturned ==
    last.op = "Exe" /\ last.wasOpen /\ last.out # "blocked"

\* the statement of the last call captures the identity: exe puts its own
\* *int64 in the last slot
CapturesIdentity ==
    isPkgEnv /\ stmt[last.x].stmtType = "Insert" /\ stmt[last.x].returning

\* C11: for a parameter list with exactly one batch parameter, of length N, bind
\* returns the iteration count N and Exe passes it to the execute; for a list
\* with no batch parameter, the empty list included, the count is 1.
C11_IterationCount ==
    (ExeReturned /\ Bindable(last.params) /\ Cardinality(Batches(last.params)) <= 1)
        => /\ last.bound
           /\ last.iterations =
                 IF Batches(last.params) = {} THEN 1
                 ELSE last.params[CHOOSE i \in Batches(last.params) : TRUE].n

\* C12: for a parameter list with several batch parameters, the iteration count
\* that bind returns is the length of the first of them.
C12_FirstBatchIsAuthoritative ==
    (ExeReturned /\ ~CapturesIdentity /\ Bindable(last.params)
        /\ Cardinality(Batches(last.params)) >= 2)
        => /\ last.bound
           /\ last.iterations =
                 last.params[CHOOSE i \in Batches(last.params) :
                                \A j \in Batches(last.params) : i <= j].n


\* an Exe has reached the provider's execute
Executed == last.op = "Exe" /\ last.executed

\* the open transactions of the session of the statement of the last call
TxsOfLast == ses[stmt[last.x].ses].openTxs

\* C13: for an Exe on a statement of a mutating kind, the mode passed to the
\* execute is commit-on-success when the resolved configuration is
\* auto-committing and the session has no open transaction, and the default mode
\* whenever the session has an open transaction, whatever the configuration.
C13_AutoCommitMode ==
    (Executed /\ stmt[last.x].stmtType = "Insert") =>
        /\ (TxsOfLast = 0 /\ IsAutoCommitting(Stmt_Cfg(stmt[last.x])))
              => last.mode = "COMMIT_ON_SUCCESS"
        /\ TxsOfLast > 0 => last.mode = "DEFAULT"

\* an insert was executed in the default mode with auto-commit configured and a
\* transaction open
C13_Witness ==
    /\ Executed
    /\ stmt[last.x].stmtType = "Insert"
    /\ TxsOfLast > 0
    /\ IsAutoCommitting(Stmt_Cfg(stmt[last.x]))
    /\ last.mode = "DEFAULT"

\* C14: for an Exe on a statement that is not of a mutating kind, the mode
\* passed to the execute is the default mode, also when the configuration is
\* auto-committing and the session has no open transaction.
C14_NonMutatingDefaultMode ==
    (Executed /\ stmt[last.x].stmtType \in {"Select", "Other"})
        => last.mode = "DEFAULT"


\* the descriptor that binding parameter p yields
ExpectedBnd(p) ==
    IF IsNullParam(p) THEN NilBnd(NullTag(p.k)) ELSE ValBnd(p.k)

\* C15: an Exe with caller parameters (v1, ..., vk) on an insert that captures
\* the identity binds the k parameters unchanged at their positions and one
\* more output descriptor after them.
C15_IdentityAppended ==
    (ExeReturned /\ CapturesIdentity /\ Bindable(last.params)) =>
        /\ last.bound
        /\ stmt[last.x].bnds.len = Len(last.params) + 1
        /\ \A i \in 1..Len(last.params) :
              BndAt(stmt[last.x], i - 1) = ExpectedBnd(last.params[i])
        /\ BndAt(stmt[last.x], Len(last.params)) = ValBnd("*int64")

\* the position of the first parameter of an unsupported shape
FirstUnsupported(ps) ==
    CHOOSE i \in 1..Len(ps) :
        /\ ps[i].k \in {"other", "[]interface{}"}
        /\ \A j \in 1..(i - 1) : ps[j].k \notin {"other", "[]interface{}"}

\* C16: binding a value of an unsupported dynamic type, a slice of untyped
\* elements included, fails with an invalid-bind-parameter error that
\* identifies the index of the parameter and its dynamic type.
C16_InvalidBindParameter ==
    (ExeReturned /\ ~CapturesIdentity /\ ~Bindable(last.params)
        /\ \A i \in 1..Len(last.params) :
              ~last.params[i].fail /\ ~IsNullParam(last.params[i]))
        => /\ ~last.bound
           /\ last.err.kind = "bindparam"
           /\ last.err.type = last.params[FirstUnsupported(last.params)].k
           /\ "index" \in DOMAIN last.err
           /\ last.err.index = FirstUnsupported(last.params) - 1


\* the call on a statement that returned last made a successful execute while the
\* statement had an output bind
ExecutedWithOutputBind ==
    /\ last.op \in {"Exe", "Qry"}
    /\ last.r = "OCI_SUCCESS"
    /\ stmt[last.x].hasPtrBind

\* the indexes 0 .. k-1, in order
FirstIndexes(k) == [i \in 1..k |-> i - 1]

\* C17: whenever the execute of Exe or Qry succeeds and the statement has an
\* output bind, the copy-back has run over the bound descriptors in parameter
\* order, index 0 first, when the call returns: over all of them when the call
\* returns no error, up to the one that failed otherwise; and an Exe whose
\* copy-back failed returns the error with the affected-row count it had obtained
C17_OutputCopyBack ==
    ExecutedWithOutputBind =>
        LET len == stmt[last.x].bnds.len
        IN /\ last.err = NIL => last.ptrs = FirstIndexes(len)
           /\ last.err # NIL /\ len > 0 =>
                 \E k \in 1..len : last.ptrs = FirstIndexes(k)
           /\ last.op = "Exe" /\ last.err # NIL =>
                 last.rows = (IF stmt[last.x].stmtType \in {"Select", "Insert"} THEN 1 ELSE 0)

\* C18: a Qry that returns a ResultSet and no error leaves that ResultSet open on
\* the statement and in the statement's openRsets; a Qry that returns an error
\* returns no ResultSet, and a ResultSet it took from the pool is neither open
\* nor in openRsets when the call returns
C18_QryRegistersIffSucceeds ==
    last.op = "Qry" /\ last.out # "blocked" =>
        IF last.err = NIL
        THEN /\ last.rset # NULL
             /\ rset[last.rset] = RsetOpen(last.x)
             /\ last.rset \in stmt[last.x].openRsets
        ELSE /\ last.rset = NULL
             /\ last.got # NULL =>
                   /\ rset[last.got].state # "open"
                   /\ last.got \notin stmt[last.x].openRsets
             /\ \A r \in stmt[last.x].openRsets : rset[r] = RsetOpen(last.x)

\* a Qry whose ResultSet failed to open has returned, and a later Qry has
\* returned a ResultSet
C18_Witness ==
    /\ last.op = "Qry"
    /\ last.err = ErrOci
    /\ last.got # NULL
    /\ stmt[last.x].openRsets # {}

\* the configuration a statement of session e inherits when neither is the
\* environment shared: the session's own, else the server's own, else the
\* environment's
Inherited(e) ==
    IF ses[e].cfg # ZeroCfg THEN ses[e].cfg
    ELSE IF srv[ses[e].srv].cfg # ZeroCfg THEN srv[ses[e].srv].cfg
    ELSE EnvCfg

\* C19: Stmt.Cfg() and the statement part of Srv.Cfg() return the shared
\* environment's statement configuration whenever the environment is the shared
\* one, whatever is set on the statement, the session or the server; otherwise
\* the node's own configuration when it is set, and what the parent resolves to
\* when it is not
C19_CfgResolution ==
    /\ last.op = "Cfg" =>
          last.out = (IF isPkgEnv THEN EnvCfg
                      ELSE IF stmt[last.x].cfg # ZeroCfg THEN stmt[last.x].cfg
                      ELSE Inherited(stmt[last.x].ses))
    /\ last.op = "SrvCfg" =>
          last.out = (IF isPkgEnv THEN EnvCfg
                      ELSE IF srv[last.x].cfg # ZeroCfg THEN srv[last.x].cfg
                      ELSE EnvCfg)

\* Stmt.Cfg() has returned the shared environment's configuration for a
\* statement with a configuration of its own on a session with one of its own
C19_Witness ==
    /\ last.op = "Cfg"
    /\ isPkgEnv
    /\ stmt[last.x].cfg = ManualCfg
    /\ ses[stmt[last.x].ses].cfg = UserCfg
    /\ last.out = EnvCfg

\* caller t starts an OpenSes or a Version on a server whose handle is nil
ClosedSrvCall(t) ==
    /\ th[t].pc = "idle"
    /\ th'[t].op \in {"OpenSes", "Version"}
    /\ th'[t].srv # NULL
    /\ ~SrvIsOpen(th'[t].srv)

\* the call caller t started returns an AlreadyClosed error at once: no provider
\* step, nothing taken from a pool, no field and no collection changed
SrvCallRejected(t) ==
    /\ th'[t].pc = "ret"
    /\ th'[t].ret = ErrClosed("Srv") \/ th'[t].ret = ErrClosed("Env")
    /\ th'[t].rses = NULL
    /\ UNCHANGED <<envOpen, envOpenSrvs, srv, srvPool, srvNew, nextHandle, detachCalls,
                   ses, sesPool, sesNew, stmt, stmtPool, stmtNew, rset>>

\* an Exe or a Qry is made on a statement whose handle is nil
ClosedStmtCall ==
    /\ last.op = "none"
    /\ last'.op \in {"Exe", "Qry"}
    /\ stmt[last'.x].ocistmt = NULL

\* that call returns an AlreadyClosed error: no bind, no execute, no Rset taken
\* from the pool, no field and no collection changed
StmtCallRejected ==
    /\ last'.err = ErrClosed("Stmt")
    /\ ~last'.bound /\ ~last'.executed /\ last'.invoked = {}
    /\ last'.got = NULL /\ last'.rset = NULL
    /\ UNCHANGED <<envOpen, envOpenSrvs, srv, srvPool, srvNew, nextHandle, detachCalls,
                   ses, sesPool, sesNew, stmt, stmtPool, stmtNew, rset>>

\* C20 as stated: Srv.OpenSes and Srv.Version on a closed Srv, and Stmt.Exe and
\* Stmt.Qry on a closed Stmt, each return an AlreadyClosed error, make no
\* provider call, take nothing from a pool and leave every field and every
\* children collection unchanged
C20_ClosedNodeRejects ==
    [][/\ \A t \in Threads : ClosedSrvCall(t) => SrvCallRejected(t)
       /\ ClosedStmtCall => StmtCallRejected]_vars

\* C20 amended: the same, for an OpenSes that is given a non-zero configuration
C20_ClosedNodeRejectsValidCall ==
    [][/\ \A t \in Threads :
            ClosedSrvCall(t) /\ (th'[t].op = "OpenSes" => th'[t].arg # ZeroCfg)
            => SrvCallRejected(t)
       /\ ClosedStmtCall => StmtCallRejected]_vars

\* an OpenSes with a non-zero configuration on a closed server has returned, while
\* a closed statement is in the statement pool
C20_Witness ==
    \E t \in Threads :
        /\ th[t].pc = "ret"
        /\ th[t].op = "OpenSes"
        /\ th[t].arg = UserCfg
        /\ th[t].srv # NULL
        /\ ~SrvIsOpen(th[t].srv)
        /\ th[t].ret = ErrClosed("Srv")
        /\ \E x \in Stmts : stmtPool[x] > 0 /\ stmt[x].ocistmt = NULL

\* caller t takes a step of an OpenSes
OpenSesStep(t) == th'[t].op = "OpenSes" /\ th'[t] # th[t]

\* C21: an OpenSes that succeeds returns a session whose server is the server
\* called, that is in the server's openSess, and NumSes() has grown by exactly
\* one; every other step of an OpenSes, and so an OpenSes that fails, takes no
\* session from the pool, leaves openSess as it is, and a failing OpenSes
\* returns a nil session with an error
C21_OpenSesRegistersIffSucceeds ==
    [][\A t \in Threads :
         OpenSesStep(t) =>
           IF th'[t].pc = "ret" /\ th'[t].ret = NIL
           THEN /\ th'[t].rses # NULL
                /\ ses'[th'[t].rses].srv = th'[t].srv
                /\ ses'[th'[t].rses].ocises # NULL
                /\ th'[t].rses \in srv'[th'[t].srv].openSess
                /\ Cardinality(srv'[th'[t].srv].openSess)
                     = Cardinality(srv[th'[t].srv].openSess) + 1
           ELSE /\ th'[t].rses = NULL
                /\ UNCHANGED <<srv, ses, sesPool, sesNew>>]_vars

\* an OpenSes has failed at the provider on a server with a session open, and
\* the session pool holds a session
C21_Witness ==
    \E t \in Threads :
        /\ th[t].pc = "ret" /\ th[t].op = "OpenSes" /\ th[t].ret = ErrOci
        /\ srv[th[t].srv].openSess # {}

\* a call through DrvStmt is made on an open statement with a context that is
\* cancelled or past its deadline
CancelledCall ==
    /\ last.op = "none"
    /\ last'.op \in {"ExecContext", "QueryContext"}
    /\ last'.ctx # "live"
    /\ stmt[last'.x].ocistmt # NULL

\* C22: an ExecContext or a QueryContext made on an open statement with a
\* context already cancelled or past its deadline returns the context's error,
\* runs no bind pass and no execute, and leaves the statement's bnds, hasPtrBind
\* and openRsets as they were
C22_CancelledBeforeExecution ==
    [][CancelledCall =>
         /\ last'.err = CtxErr(last'.ctx)
         /\ ~last'.bound /\ ~last'.executed /\ last'.invoked = {}
         /\ stmt'[last'.x].bnds = stmt[last'.x].bnds
         /\ stmt'[last'.x].hasPtrBind = stmt[last'.x].hasPtrBind
         /\ stmt'[last'.x].openRsets = stmt[last'.x].openRsets
         /\ UNCHANGED <<stmt, rset>>]_vars

\* an ExecContext with a cancelled context has returned on a statement that has
\* an output bind and an open result set
C22_Witness ==
    /\ last.op = "ExecContext"
    /\ last.ctx = "canceled"
    /\ last.err = CtxErr("canceled")
    /\ stmt[last.x].hasPtrBind
    /\ stmt[last.x].openRsets # {}
    /\ Len(last.params) = 0

\* a bind struct whose setPtr copies a value back after the execute
NeedsCopyBack(d) == d.bnd = "bndInt64Ptr"

\* C23: after any sequence of Exe and Qry calls and calls through DrvStmt on a
\* statement, hasPtrBind is true exactly when a descriptor of the statement's
\* current list needs a copy-back; a rebind with input parameters only, after a
\* call that bound an output pointer, leaves it false
C23_HasOutputBindExact ==
    \A x \in 1..stmtNew :
        stmt[x].ocistmt # NULL =>
            (stmt[x].hasPtrBind <=>
                \E i \in 0..(stmt[x].bnds.len - 1) : NeedsCopyBack(BndAt(stmt[x], i)))

\* the bind pass of an Exe or a Qry on the statement succeeded
BindPassed == last.op \in {"Exe", "Qry"} /\ last.bound

\* C24: after a bind pass that succeeded with k parameters, the empty list
\* included, the statement's descriptor list has exactly k entries, entry i is a
\* descriptor (not nil) that this pass made for parameter i, and no descriptor of
\* an earlier pass is left in the list
C24_BindListRebuilt ==
    BindPassed =>
        LET st == stmt[last.x]
            k == Len(last.params)
        IN /\ st.bnds.len = k
           /\ \A i \in 1..k : /\ BndAt(st, i - 1) = ExpectedBnd(last.params[i])
                               /\ (i - 1) \notin st.stale

\* C25: a bind pass that puts a descriptor at an index where the statement holds
\* one of an earlier pass closes the earlier one and returns it to its pool
\* first: no pass of an Exe or a Qry loses a descriptor it or an earlier pass took
\* from a pool
C25_RebindReleasesOld ==
    (last.op \in {"Exe", "Qry"} /\ last.wasOpen /\ last.out # "blocked") =>
        ~stmt[last.x].dropped

\* the indexes (1-based) of the parameters of the last call whose bind the
\* provider rejects
FailingBinds == {i \in 1..Len(last.params) : last.params[i].fail}

\* the last Exe was given a parameter whose bind the provider rejects, after
\* parameters of supported shapes only
BindFailed ==
    /\ ExeReturned /\ ~CapturesIdentity
    /\ FailingBinds # {}
    /\ \A j \in 1..Len(last.params) :
          (\A i \in FailingBinds : j < i) => last.params[j].k \notin {"other", "[]interface{}"}

\* C26: when the bind of the parameter at index i fails, in a value binder or in
\* the NULL binder of a nullable wrapper or of a raw nil, the Exe returns that
\* error, no binder is called at an index greater than i, and the provider's
\* execute is not called.
C26_BindFailFast ==
    BindFailed =>
        /\ last.err = ErrOci
        /\ ~last.executed
        /\ \A j \in last.invoked : \A i \in FailingBinds : j < i

\* the smallest member of a non-empty set of numbers
Least(S) == CHOOSE i \in S : \A j \in S : i <= j

\* the last Exe failed in the value binder of its first rejected parameter: the
\* parameters before it are values that the provider accepts
ValueBindFailed ==
    /\ BindFailed
    /\ last.params[Least(FailingBinds)].k = "int64"
    /\ \A j \in 1..(Least(FailingBinds) - 1) :
          last.params[j].k \in {"int64", "*int64", "[]bool"}

\* C27: after a bind pass that fails at index i, the descriptors bound at the
\* indexes 0..i-1 in that pass are in the statement's descriptor list, whatever
\* the list was before the pass.
C27_PartialBindsInstalled ==
    ValueBindFailed =>
        \A j \in 1..(Least(FailingBinds) - 1) :
            /\ BndAt(stmt[last.x], j - 1) = ExpectedBnd(last.params[j])
            /\ (j - 1) \notin stmt[last.x].stale

\* an Exe has returned, on an open or on a closed statement
ExeCalled == last.op = "Exe" /\ last.out # "blocked"

\* C28: the steps of an Exe run in the order checkOpen, bind, setPrefetch,
\* execute, row count, copy-back, each only after the one before succeeded: a
\* step that fails returns an error and no later step runs.  An execute that
\* fails, of a batch too, returns one error with row count 0, no read of the row
\* count and no copy-back.
C28_ExecPipeline ==
    ExeCalled =>
        /\ ~last.wasOpen => (last.err # NIL /\ last.invoked = {} /\ ~last.executed)
        /\ (~CapturesIdentity /\ ~Bindable(last.params)) =>
              (last.err # NIL /\ ~last.bound /\ ~last.executed)
        /\ last.executed => last.bound
        /\ last.read => (last.executed /\ last.r # "OCI_ERROR")
        /\ last.ptrs # <<>> => (last.executed /\ last.r # "OCI_ERROR")
        /\ ~last.executed => last.rows = 0
        /\ ~last.read => last.rows = 0
        /\ last.r = "OCI_ERROR" =>
              (last.err = ErrOci /\ last.rows = 0 /\ ~last.read /\ last.ptrs = <<>>)

\* the provider's execute of the last Exe did not return OCI_ERROR
ExecuteSucceeded == ExeReturned /\ last.executed /\ last.r # "OCI_ERROR"

\* C29: after an execute that succeeded, for a statement of one of the kinds
\* Select, Update, Delete, Insert the row count is read and is the count that
\* the Exe returns, and a failure of the read is the Exe's error; for any other
\* kind the count is 0, nothing is read, and a no-data status of the execute is
\* the Exe's error.
C29_ResultInterpretation ==
    ExecuteSucceeded =>
        IF stmt[last.x].stmtType \in {"Select", "Update", "Delete", "Insert"}
        THEN /\ last.read
             /\ \/ last.rows = 1
                \/ last.err = ErrOci /\ last.rows = 0 /\ last.ptrs = <<>>
        ELSE /\ ~last.read
             /\ last.rows = 0
             /\ last.r = "OCI_NO_DATA" => (last.err = ErrOci /\ last.ptrs = <<>>)

\* an Exe of an insert whose row-count read failed has returned
C29_Witness ==
    /\ ExecuteSucceeded
    /\ stmt[last.x].stmtType = "Insert"
    /\ last.read /\ last.err = ErrOci /\ last.rows = 0

\* C30: a Srv.close or a Stmt.close in which a fault occurs during the close of
\* the children or of the bind descriptors returns the fault in its error and
\* still runs every later step: the remaining children are closed, the detach
\* or release of the node's native handle is invoked, the node's fields are
\* reset and the node is in its pool.
C30_TeardownNeverStopsEarly ==
    /\ \A t \in Threads :
          (SrvCloseReturned(t) /\ th[t].faulted) =>
              /\ th[t].ret # NIL
              /\ \E i \in 1..Len(th[t].ret.errs) : th[t].ret.errs[i] = ErrFault
              /\ \A e \in th[t].hadSess : ses[e].ocises = NULL
              /\ \E h \in Handles : detachCalls[h] >= 1
              /\ ~SrvIsOpen(th[t].srv)
              /\ srv[th[t].srv].openSess = {}
              /\ srvPool[th[t].srv] >= 1
    /\ (last.op = "SesClose" /\ last.err = ErrFault) =>
              /\ stmt[last.x] = StmtZero
              /\ stmtPool[last.x] >= 1
              /\ \A r \in last.got : rset[r].state # "open"

\* C32: in every reachable state, whatever the interleaving of Srv.OpenSes,
\* Srv.Close and the reuse of pooled instances, a Srv whose handle is nil (every
\* pooled Srv among them) has no open session, no environment and a zero
\* configuration, and a Stmt whose handle is nil has no bound descriptor,
\* hasPtrBind false, no open result set and a zero configuration.
C32_ClosedNodesClean ==
    /\ \A s \in Srvs :
          srv[s].ocisrv = NULL =>
              /\ srv[s].openSess = {}
              /\ srv[s].env = NULL
              /\ srv[s].cfg = ZeroCfg
    /\ \A x \in Stmts :
          stmt[x].ocistmt = NULL =>
              /\ stmt[x].bnds = NilSlice
              /\ ~stmt[x].hasPtrBind
              /\ stmt[x].openRsets = {}
              /\ stmt[x].cfg = ZeroCfg

\* C34: in every reachable state Srv.IsOpen() is true exactly when the server's
\* own handle is not nil, whatever the state of its environment.
C34_IsOpenFromOwnHandle ==
    \A s \in Srvs : SrvIsOpen(s) <=> srv[s].ocisrv # NULL

\* C36: when DrvStmt.QueryContext returns an error, also the context's error
\* after a query that succeeded, no Rset that the call opened is left open and
\* registered in the statement's openRsets.
C36_FailedQueryLeavesNoRset ==
    (last.op = "QueryContext" /\ last.err # NIL /\ last.got # NULL) =>
        ~(rset[last.got] = RsetOpen(last.x) /\ last.got \in stmt[last.x].openRsets)


\* a goroutine is inside OCIStmtExecute on statement x
InExecute(t, x) == th[t].pc = "xe_call" /\ th[t].x = x

\* a goroutine is inside OCIStmtRelease on statement x
InRelease(t, x) == th[t].pc = "sc_release" /\ th[t].x = x

\* C37: the provider's release of a statement handle never overlaps an execute
\* in flight on the same handle: no state has one goroutine inside
\* OCIStmtRelease and another inside OCIStmtExecute on the same statement
C37_ReleaseNeverOverlapsExecute ==
    \A x \in Stmts : ~\E t, u \in Threads : InExecute(t, x) /\ InRelease(u, x)

SetCfgs == {ZeroCfg, UserCfg}

C31_TopDownCloseOrdering ==
    [][\A t \in Threads :
         /\ (th[t].pc = "cl_detach" /\ detachCalls' # detachCalls) =>
               \A e \in th[t].hadSess \cup srv[th[t].srv].openSess : ses[e].ocises = NULL
         /\ (th[t].pc = "cl_detach" /\ th'[t].pc # "cl_detach") =>
               detachCalls' # detachCalls
         /\ \A s \in Srvs :
               /\ (srv[s].ocisrv # NULL /\ srv'[s].ocisrv = NULL) =>
                     detachCalls[srv[s].ocisrv] >= 1
               /\ srvPool'[s] # srvPool[s] => srv[s].ocisrv = NULL
         /\ (th[t].pc = "sc_rlock" /\ th'[t].pc # "sc_rlock") =>
               /\ th'[t].pc = "sc_release"
               /\ \A r \in th[t].hadRsets : rset[r] = RsetClosed
         /\ (th[t].pc # "sc_lock" /\ th'[t].pc = "sc_lock") => th[t].pc = "sc_release"
         /\ (th[t].pc # "sc_reset" /\ th'[t].pc = "sc_reset") => th[t].pc = "sc_lock"]_vars

====
